---- MODULE Spec2Model ----
(***************************************************************************)
(* cwk-gen: the image composition pipeline.                                *)
(*                                                                         *)
(*  - the text layout engine (wrapText / hyphenateWord of utils.js),       *)
(*    specification WrapSpec;                                              *)
(*  - the card composers (welcome, rank, profile, banner) and the          *)
(*    temp-file animated composer, one render call as a staged state       *)
(*    machine, specification Spec.                                         *)
(*                                                                         *)
(* Strings are sequences of one-character strings, so that split, join,    *)
(* trim, includes and startsWith are computed and not assumed.             *)
(***************************************************************************)
EXTENDS Integers, Sequences, FiniteSets, TLC

\* --------------------------------------------------------------- bounds
\* longest enumerated text handed to wrapText
MaxTextLen == 5
\* largest enumerated maxWidth (in width units) handed to wrapText
MaxWidthBound == 6

\* ------------------------------------------------------------ JS values
\* A JavaScript value as far as typeof, truthiness and comparison see it.
JsTypes == {"undefined", "null", "boolean", "number", "string", "object"}

Undef == [type |-> "undefined", s |-> <<>>, n |-> 0, nan |-> FALSE]
Null == [type |-> "null", s |-> <<>>, n |-> 0, nan |-> FALSE]
Obj == [type |-> "object", s |-> <<>>, n |-> 0, nan |-> FALSE]
NaN == [type |-> "number", s |-> <<>>, n |-> 0, nan |-> TRUE]
Num(k) == [type |-> "number", s |-> <<>>, n |-> k, nan |-> FALSE]
Str(cs) == [type |-> "string", s |-> cs, n |-> 0, nan |-> FALSE]
Bool(b) == [type |-> "boolean", s |-> <<>>, n |-> IF b THEN 1 ELSE 0, nan |-> FALSE]

\* typeof v (typeof null is 'object')
TypeOf(v) == IF v.type = "null" THEN "object" ELSE v.type

\* !v
Falsy(v) ==
    \/ v.type \in {"undefined", "null"}
    \/ v.type = "boolean" /\ v.n = 0
    \/ v.type = "number" /\ (v.nan \/ v.n = 0)
    \/ v.type = "string" /\ v.s = <<>>

\* ------------------------------------------------------ string helpers
RECURSIVE SplitAcc(_, _, _)
SplitAcc(s, seps, cur) ==
    IF s = <<>> THEN <<cur>>
    ELSE IF Head(s) \in seps
         THEN <<cur>> \o SplitAcc(Tail(s), seps, <<>>)
         ELSE SplitAcc(Tail(s), seps, Append(cur, Head(s)))

\* String.prototype.split on a set of one-character separators
Split(s, seps) == SplitAcc(s, seps, <<>>)

RECURSIVE Join(_, _)
\* Array.prototype.join
Join(parts, sep) ==
    IF parts = <<>> THEN <<>>
    ELSE IF Len(parts) = 1 THEN parts[1]
    ELSE parts[1] \o <<sep>> \o Join(Tail(parts), sep)

\* ------------------------------------------------ text layout engine
\* The measuring function of the surface: additive per character. The unit
\* is one narrow character (10 px in the repository's tests); "W" is a wide
\* glyph of two units.
CharW(c) == IF c = "W" THEN 2 ELSE 1

RECURSIVE measureText(_)
measureText(s) == IF s = <<>> THEN 0 ELSE CharW(Head(s)) + measureText(Tail(s))

\* mutant of Fits: the comparison the tests' comments expect (<=)
FitsOrEqual(w, maxWidth) == w <= maxWidth

\* utils.js:167  metrics.width < maxWidth
Fits(w, maxWidth) == w < maxWidth

\* mutant of TooWide: >= instead of >
TooWideOrEqual(w, maxWidth) == w >= maxWidth

\* utils.js:171  ctx.measureText(word).width > maxWidth
TooWide(w, maxWidth) == w > maxWidth

RECURSIVE HyphenateFrom(_, _, _, _)
\* the loop of hyphenateWord from index i downwards; calls counts measureText
HyphenateFrom(word, maxWidth, i, calls) ==
    IF ~(i > 0) THEN [out |-> word, calls |-> calls]
    ELSE LET part == SubSeq(word, 1, i) \o <<"-">>
         IN  IF measureText(part) <= maxWidth
             THEN [out |-> part, calls |-> calls + 1]
             ELSE HyphenateFrom(word, maxWidth, i - 1, calls + 1)

\* mutant of hyphenateWord: a word no piece of which fits is cut after its
\* first character all the same
hyphenateWordForced(word, maxWidth) ==
    LET h == HyphenateFrom(word, maxWidth, Len(word) - 1, 0)
    IN  IF h.out = word /\ Len(word) > 1
        THEN [out |-> <<word[1], "-">>, calls |-> h.calls]
        ELSE h

hyphenateWord(word, maxWidth) == HyphenateFrom(word, maxWidth, Len(word) - 1, 0)

RECURSIVE WrapLoop(_, _, _, _, _, _)
\* the for loop of wrapText over words[i..]; i is 1-based (words[2] is the
\* code's words[1])
WrapLoop(words, i, currentLine, lines, maxWidth, calls) ==
    IF i > Len(words)
    THEN [lines |-> Append(lines, currentLine), calls |-> calls]
    ELSE LET word == words[i]
             testLine == currentLine \o <<" ">> \o word
         IN  IF Fits(measureText(testLine), maxWidth)
             THEN WrapLoop(words, i + 1, testLine, lines, maxWidth, calls + 1)
             ELSE IF TooWide(measureText(word), maxWidth)
                  THEN LET h == hyphenateWord(word, maxWidth)
                       IN  WrapLoop(words, i + 1, h.out, Append(lines, currentLine),
                                    maxWidth, calls + 2 + h.calls)
                  ELSE WrapLoop(words, i + 1, word, Append(lines, currentLine),
                                maxWidth, calls + 2)

\* mutant of IsBlankText: the typeof test forgotten
IsBlankTextNoTypeof(text) == Falsy(text)

\* utils.js:156  !text || typeof text !== 'string'
IsBlankText(text) == Falsy(text) \/ TypeOf(text) # "string"

\* wrapText(ctx, text, maxWidth): kind "ok" with the returned string and the
\* number of measureText calls, or kind "throw" where the runtime raises
\* (text.split on a value that is no string)
wrapText(text, maxWidth) ==
    IF IsBlankText(text) THEN [kind |-> "ok", out |-> <<>>, calls |-> 0]
    ELSE IF TypeOf(text) # "string" THEN [kind |-> "throw", out |-> <<>>, calls |-> 0]
    ELSE LET words == Split(text.s, {" "})
             r == WrapLoop(words, 2, words[1], <<>>, maxWidth, 0)
         IN  [kind |-> "ok", out |-> Join(r.lines, "\n"), calls |-> r.calls]

\* ------------------------------------------------- wrapText: the inputs
Alphabet == {"a", "W", " "}

RECURSIVE TextsOfLen(_)
TextsOfLen(k) ==
    IF k = 0 THEN {<<>>}
    ELSE {Append(t, c) : t \in TextsOfLen(k - 1), c \in Alphabet}

BoundedTexts == UNION {TextsOfLen(k) : k \in 0..MaxTextLen}

\* the texts of the repository's own tests (test/utils.test.js)
Supercali ==
    <<"S","u","p","e","r","c","a","l","i","f","r","a","g","i","l","i","s","t",
      "i","c","e","x","p","i","a","l","i","d","o","c","i","o","u","s">>

OneTwoThreeFour ==
    <<"o","n","e"," ","t","w","o"," ","t","h","r","e","e"," ","f","o","u","r">>

AVeryLong ==
    <<"A"," ","v","e","r","y"," ","l","o","n","g"," ","s","e","n","t","e","n",
      "c","e"," ","t","o"," ","t","e","s","t"," ","b","a","s","i","c"," ","w",
      "r","a","p","p","i","n","g"," ","f","u","n","c","t","i","o","n","a","l",
      "i","t","y"," ","n","o","t"," ","c","o","m","p","l","e","x"," ","h","y",
      "p","h","e","n","a","t","i","o","n">>

AVeryLongSentence ==
    <<"A"," ","v","e","r","y"," ","l","o","n","g"," ","s","e","n","t","e","n","c","e">>

TwoWords == <<"t","w","o"," ","w","o","r","d","s">>

\* (text, maxWidth) pairs of the tests; 10 px per character is one unit
TestInputs ==
    { <<Str(Supercali), 10>>, <<Str(OneTwoThreeFour), 8>>, <<Str(AVeryLong), 20>>,
      <<Str(TwoWords), 0>>, <<Str(<<"a", "a", " ">> \o Supercali), 10>> }

NonStringTexts == {Undef, Null, Obj, NaN, Num(0), Num(5), Bool(TRUE), Bool(FALSE)}

WrapInputs ==
    ({Str(t) : t \in BoundedTexts} \cup NonStringTexts) \X ((0 - 1)..MaxWidthBound)
    \cup TestInputs

\* ======================================================================
\* The card composers: one render call
\* ======================================================================

\* ------------------------------------------------------------- bounds
\* most badges in a profile card's options
MaxBadges == 6
\* most frames configured for the animated composer
MaxFrames == 3
\* most pages in a decoded animation
MaxPages == 61

\* ------------------------------------------------- strings, messages
\* String.prototype.trim (spaces only)
RECURSIVE TrimLeft(_)
TrimLeft(s) == IF s # <<>> /\ Head(s) = " " THEN TrimLeft(Tail(s)) ELSE s

RECURSIVE TrimRight(_)
TrimRight(s) ==
    IF s # <<>> /\ s[Len(s)] = " " THEN TrimRight(SubSeq(s, 1, Len(s) - 1)) ELSE s

Trim(s) == TrimRight(TrimLeft(s))

\* An error message is a sequence of tokens: fixed phrases of the code are
\* one token each, interpolated strings are spliced in character by
\* character.
\* String.prototype.includes
Includes(msg, sub) ==
    \E i \in 1..(Len(msg) - Len(sub) + 1) : SubSeq(msg, i, i + Len(sub) - 1) = sub

\* String.prototype.startsWith
StartsWith(msg, pre) == Len(msg) >= Len(pre) /\ SubSeq(msg, 1, Len(pre)) = pre

\* `${v}` of a string value
Interp(v) == IF v.type = "string" THEN v.s ELSE <<"<non-string>">>

\* An error object: its class, its message and its identity (the n-th error
\* object created during the call); kind "none" is no error.
NoError == [kind |-> "none", msg |-> <<>>, id |-> 0]
MkError(kind, msg, id) == [kind |-> kind, msg |-> msg, id |-> id]

\* ------------------------------------------------------------ numbers
\* A computed number: NaN, or the fraction num / den with den > 0.
NotANumber == [nan |-> TRUE, num |-> 0, den |-> 1]
Frac(a, b) == [nan |-> FALSE, num |-> a, den |-> b]
NoValue == Frac(0, 1)

\* a / b for numbers a, b with b > 0 or NaN
JsDivide(a, b) == IF a.nan \/ b.nan THEN NotANumber ELSE Frac(a.n, b.n)

\* Math.min(r, 1)
MathMin1(r) == IF r.nan THEN r ELSE IF r.num >= r.den THEN Frac(1, 1) ELSE r

\* k * r for an integer k
JsTimes(k, r) == IF r.nan THEN r ELSE Frac(k * r.num, r.den)

\* Math.round(r): the nearest integer, halves upwards (r >= 0)
MathRound(r) == IF r.nan THEN r ELSE Frac((2 * r.num + r.den) \div (2 * r.den), 1)

\* ----------------------------------------------------- drawing surface
\* The drawing state of a 2D context that the composers touch; globalAlpha
\* in hundredths.
FreshState ==
    [fillStyle |-> "#000000", globalAlpha |-> 100, filter |-> "none",
     shadowColor |-> "rgba(0, 0, 0, 0)", shadowBlur |-> 0,
     shadowOffsetX |-> 0, shadowOffsetY |-> 0]

\* A surface: the current drawing state, the save/restore stack and the
\* draw operations issued so far, each with the state it was issued under.
FreshSurface == [st |-> FreshState, stack |-> <<>>, ops |-> <<>>]

SetFillStyle(S, c) == [S EXCEPT !.st.fillStyle = c]
SetGlobalAlpha(S, a) == [S EXCEPT !.st.globalAlpha = a]
SetFilter(S, f) == [S EXCEPT !.st.filter = f]
Save(S) == [S EXCEPT !.stack = Append(S.stack, S.st)]
Restore(S) ==
    IF S.stack = <<>> THEN S
    ELSE [S EXCEPT !.st = S.stack[Len(S.stack)],
                   !.stack = SubSeq(S.stack, 1, Len(S.stack) - 1)]

\* a draw call that is not placed in a grid
NoCell == <<0, 0>>

\* a draw call (fillRect, drawImage, fill, fillText, ...) of the n-th `what`
DrawAt(S, op, what, n) ==
    [S EXCEPT !.ops = Append(S.ops, [op |-> op, what |-> what, n |-> n, v |-> NoValue,
                                     cell |-> NoCell, st |-> S.st])]

\* the n-th of a family of draw calls, placed in the grid cell <<row, column>>
DrawCell(S, op, what, n, cell) ==
    [S EXCEPT !.ops = Append(S.ops, [op |-> op, what |-> what, n |-> n, v |-> NoValue,
                                     cell |-> cell, st |-> S.st])]

\* a draw call one of whose arguments is the computed number v
DrawValue(S, op, what, v) ==
    [S EXCEPT !.ops = Append(S.ops, [op |-> op, what |-> what, n |-> 0, v |-> v,
                                     cell |-> NoCell, st |-> S.st])]

Draw(S, op, what) == DrawAt(S, op, what, 0)

\* the state-setting shorthand used everywhere: fillStyle = c; fillRect(0, 0, width, height)
FillCanvas(S, c) == Draw(SetFillStyle(S, c), "fillRect", "canvas")

\* mutant of applyTextShadow: only the keys given are written, the others
\* keep what an earlier call left
applyTextShadowGivenOnly(S, enabled, color, blur, offsetX, offsetY) ==
    IF enabled
    THEN [S EXCEPT !.st.shadowColor = IF color = "default" THEN @ ELSE color,
                   !.st.shadowBlur = IF blur = 0 - 1 THEN @ ELSE blur,
                   !.st.shadowOffsetX = IF offsetX = 0 - 1 THEN @ ELSE offsetX,
                   !.st.shadowOffsetY = IF offsetY = 0 - 1 THEN @ ELSE offsetY]
    ELSE [S EXCEPT !.st.shadowColor = "transparent",
                   !.st.shadowBlur = 0,
                   !.st.shadowOffsetX = 0,
                   !.st.shadowOffsetY = 0]

\* applyTextShadow(ctx, {enabled, color, blur, offsetX, offsetY}); an option
\* left out is given as "default" / -1
applyTextShadow(S, enabled, color, blur, offsetX, offsetY) ==
    IF enabled
    THEN [S EXCEPT !.st.shadowColor = IF color = "default" THEN "rgba(0, 0, 0, 0.5)" ELSE color,
                   !.st.shadowBlur = IF blur = 0 - 1 THEN 5 ELSE blur,
                   !.st.shadowOffsetX = IF offsetX = 0 - 1 THEN 2 ELSE offsetX,
                   !.st.shadowOffsetY = IF offsetY = 0 - 1 THEN 2 ELSE offsetY]
    ELSE [S EXCEPT !.st.shadowColor = "transparent",
                   !.st.shadowBlur = 0,
                   !.st.shadowOffsetX = 0,
                   !.st.shadowOffsetY = 0]

\* -------------------------------------------------------------- options
Cards == {"welcome", "rank", "profile", "banner", "animated"}

\* the earlier generateAnimatedWelcome(user, guild, messageTemplate,
\* backgroundURL) kept in animatedwelcome.js, which slices the frames out of
\* the decoded animation
Composers == Cards \cup {"animatedSlice"}

\* the composers that encode an animation
AnimatedCards == {"animated", "animatedSlice"}

\* the composers that open with an options validation block
ValidatingCards == {"welcome", "rank", "profile"}

\* the composers that draw the subject's avatar on a card
AvatarCards == {"welcome", "rank", "profile"}

Ada == <<"A", "d", "a">>
Guild == <<"H", "Q">>

\* options.color as given by the caller, and the color of a background record
UserColor == "#5865F2"
RecordColor == "#112233"

\* options.background: nothing, a raw reference (URL, path or buffer), or an
\* explicit record with its own keys (welcome only)
NoBackground == [kind |-> "none", image |-> FALSE, color |-> "absent", blur |-> 0]
RefBackground == [kind |-> "ref", image |-> TRUE, color |-> "absent", blur |-> 0]
RecordBackgrounds ==
    { [kind |-> "record", image |-> TRUE, color |-> RecordColor, blur |-> 0],
      [kind |-> "record", image |-> TRUE, color |-> "absent", blur |-> 3],
      [kind |-> "record", image |-> FALSE, color |-> RecordColor, blur |-> 0] }

Fonts == {"sans-serif", "SERIF", "Poppins", "Comic"}

\* a short message / bio in width units, and the empty bio
Messages == {<<>>, <<"a", " ", "a", "a", " ", "W">>}

\* canvas width in width units (options.width)
WidthUnits == 5

BaseOpts ==
    [given |-> "object", username |-> Undef, avatarURL |-> Undef,
     serverName |-> Undef, memberCount |-> Undef,
     level |-> Undef, xp |-> Undef, requiredXp |-> Undef, rank |-> Undef,
     background |-> NoBackground, shadow |-> TRUE, font |-> "sans-serif",
     message |-> <<>>, nStats |-> 0, nBadges |-> 0, frames |-> 0, pages |-> 1]

Usernames == {Undef, Num(5), Str(<<>>), Str(<<" ">>), Str(Ada)}
AvatarURLs == {Undef, Str(<<" ">>), Str(<<"u">>)}

\* what a caller can hand to each entry point
OptionsOf(c) ==
    {[BaseOpts EXCEPT !.given = "undefined", !.background = RefBackground]} \cup
    CASE c = "animatedSlice" ->
           {[BaseOpts EXCEPT !.username = Str(Ada), !.avatarURL = Str(<<"u">>),
                             !.background = RefBackground, !.pages = k] :
              k \in {1, 2, MaxPages}}
      [] c = "welcome" ->
           {[BaseOpts EXCEPT !.username = u, !.avatarURL = a, !.background = b,
                             !.shadow = sh, !.font = f, !.message = m] :
              u \in Usernames, a \in AvatarURLs,
              b \in {NoBackground, RefBackground} \cup RecordBackgrounds,
              sh \in BOOLEAN, f \in Fonts, m \in Messages}
      [] c = "rank" ->
           {[BaseOpts EXCEPT !.username = u, !.avatarURL = a, !.background = b,
                             !.shadow = sh, !.level = l, !.xp = x,
                             !.requiredXp = q, !.rank = r] :
              u \in {Str(<<>>), Str(Ada)}, a \in {Undef, Str(<<"u">>)},
              b \in {NoBackground, RefBackground}, sh \in BOOLEAN,
              l \in {Undef, Num(0 - 1), Num(3)},
              x \in {Str(<<"5">>), Num(0 - 1), Num(0), Num(1), Num(5), Num(1250), NaN},
              q \in {Undef, Num(0 - 1), Num(0), Num(4), Num(8), Num(2000), NaN},
              r \in {Null, Num(0 - 1), Num(1)}}
      [] c = "profile" ->
           {[BaseOpts EXCEPT !.username = u, !.avatarURL = a, !.background = b,
                             !.shadow = sh, !.message = m, !.nStats = ns,
                             !.nBadges = nb] :
              u \in Usernames, a \in AvatarURLs,
              b \in {NoBackground, RefBackground}, sh \in BOOLEAN,
              m \in Messages, ns \in 0..1, nb \in 0..MaxBadges}
      [] c = "banner" ->
           {[BaseOpts EXCEPT !.serverName = n, !.memberCount = k, !.background = b,
                             !.shadow = sh] :
              n \in {Undef, Str(Guild)}, k \in {Undef, Num(42)},
              b \in {NoBackground, RefBackground}, sh \in BOOLEAN}
      [] c = "animated" ->
           {[BaseOpts EXCEPT !.username = u, !.avatarURL = a, !.background = b,
                             !.frames = n] :
              u \in {Str(Ada)}, a \in {Str(<<"u">>)},
              b \in {NoBackground, RefBackground}, n \in 0..MaxFrames}

\* the subject a card is about
SubjectName(c, o) == IF c = "banner" THEN o.serverName ELSE o.username

\* ------------------------------------------------------------- validate
\* v < k and v <= k for a value of type number (false for NaN)
JsLess(v, k) == ~v.nan /\ v.n < k
JsLessEq(v, k) == ~v.nan /\ v.n <= k

\* typeof v !== 'string' || v.trim() === ''
NotNonEmptyString(v) == TypeOf(v) # "string" \/ Trim(v.s) = <<>>

\* typeof v !== 'number' || v < 0
NotNonNegativeNumber(v) == TypeOf(v) # "number" \/ JsLess(v, 0)

\* typeof v !== 'number' || v <= 0
NotPositiveNumber(v) == TypeOf(v) # "number" \/ JsLessEq(v, 0)

\* the validation block shared by welcome, rank and profile: the message of
\* the TypeError thrown, or <<>> when the options pass
ValidateSubject(o) ==
    IF o.given # "object" THEN <<"Options object is required.">>
    ELSE IF NotNonEmptyString(o.username) THEN <<"Username must be a non-empty string.">>
    ELSE IF NotNonEmptyString(o.avatarURL) THEN <<"Avatar URL must be a non-empty string.">>
    ELSE <<>>

\* the further checks of generateRankCard
ValidateRankNumbers(o) ==
    IF NotNonNegativeNumber(o.level) THEN <<"Level must be a non-negative number.">>
    ELSE IF NotNonNegativeNumber(o.xp) THEN <<"XP must be a non-negative number.">>
    ELSE IF NotPositiveNumber(o.requiredXp) THEN <<"Required XP must be a positive number.">>
    ELSE IF NotNonNegativeNumber(o.rank) THEN <<"Rank must be a non-negative number.">>
    ELSE <<>>

\* the message of the TypeError the entry point throws before anything else,
\* or <<>>. The banner and the animated composer have no validation block:
\* they only destructure options, which throws on undefined.
ValidationMessage(c, o) ==
    IF c \in ValidatingCards
    THEN IF ValidateSubject(o) # <<>> THEN ValidateSubject(o)
         ELSE IF c = "rank" THEN ValidateRankNumbers(o) ELSE <<>>
    ELSE IF c # "animatedSlice" /\ o.given # "object"
         THEN <<"Cannot destructure property of 'options' as it is undefined.">>
         ELSE <<>>

\* ----------------------------------------------------------- font check
GenericFontFamilies == {"sans-serif", "serif", "monospace"}

\* _caches._registeredFontFamilies: the families registered so far
RegisteredFontFamilies == {"Poppins"}

\* String.prototype.toLowerCase on the font names of the model
LowerCase(f) ==
    CASE f = "SERIF" -> "serif"
      [] f = "Poppins" -> "poppins"
      [] f = "Comic" -> "comic"
      [] OTHER -> f

\* mutant of FontWarns: the generic families compared case-sensitively
FontWarnsCaseSensitive(f) ==
    /\ f # ""
    /\ f \notin GenericFontFamilies
    /\ f \notin RegisteredFontFamilies

\* does the composer warn about the font family?
FontWarns(f) ==
    /\ f # ""
    /\ LowerCase(f) \notin GenericFontFamilies
    /\ f \notin RegisteredFontFamilies

\* ----------------------------------------------------- background stage
BgOutcomes == {"ok", "loadFails", "decodeFails", "drawFails"}

OverlayColor == "rgba(0, 0, 0, 0.5)"

\* welcome: defaults layered under the caller's keys
BgConfig(o) ==
    [image |-> o.background.kind # "none" /\ o.background.image,
     color |-> IF o.background.kind = "record" /\ o.background.color # "absent"
               THEN o.background.color ELSE UserColor,
     blur |-> o.background.blur,
     overlayOpacity |-> 50,
     overlayColor |-> OverlayColor]

\* is a background image load attempted at all?
LoadsBackground(c, o) ==
    IF c = "welcome" THEN BgConfig(o).image ELSE o.background.kind # "none"

\* mutant of FallbackFill: the catch block fills with the overlay color
FallbackFillOverlay(S, color) == FillCanvas(S, OverlayColor)

\* the catch block of the background stage: ctx.fillStyle = color; fillRect
FallbackFill(S, color) == FillCanvas(S, color)

\* generateWelcomeImage, background stage
WelcomeBackground(o, S, outcome) ==
    LET cfg == BgConfig(o)
        body ==
            IF cfg.image
            THEN IF outcome \in {"loadFails", "decodeFails"}
                 THEN FallbackFill(S, UserColor)
                 ELSE LET saved == Save(S)
                          blurred == IF cfg.blur > 0 THEN SetFilter(saved, "blur") ELSE saved
                      IN  IF outcome = "drawFails"
                          THEN FallbackFill(blurred, UserColor)
                          ELSE LET drawn == Restore(Draw(blurred, "drawImage", "background"))
                                   over == SetGlobalAlpha(SetFillStyle(drawn, cfg.overlayColor),
                                                          cfg.overlayOpacity)
                               IN  SetGlobalAlpha(Draw(over, "fillRect", "canvas"), 100)
            ELSE FillCanvas(S, cfg.color)
    IN  SetGlobalAlpha(SetFilter(body, "none"), 100)

\* generateRankCard and generateProfileCard, background stage
CardBackground(o, S, outcome) ==
    IF o.background.kind # "none"
    THEN IF outcome \in {"loadFails", "decodeFails"}
         THEN FallbackFill(S, UserColor)
         ELSE LET dimmed == SetGlobalAlpha(Save(S), 70)
              IN  IF outcome = "drawFails"
                  THEN FallbackFill(dimmed, UserColor)
                  ELSE FillCanvas(Restore(Draw(dimmed, "drawImage", "background")),
                                  OverlayColor)
    ELSE FillCanvas(S, UserColor)

\* generateServerBanner, background stage
BannerBackground(o, S, outcome) ==
    IF o.background.kind # "none"
    THEN IF outcome = "ok"
         THEN Draw(S, "drawImage", "background")
         ELSE FallbackFill(S, UserColor)
    ELSE FillCanvas(S, UserColor)

BackgroundStage(c, o, S, outcome) ==
    CASE c = "welcome" -> WelcomeBackground(o, S, outcome)
      [] c \in {"rank", "profile"} -> CardBackground(o, S, outcome)
      [] OTHER -> BannerBackground(o, S, outcome)

\* --------------------------------------------------------- avatar stage
AvatarOutcomes == {"ok", "loadFails", "cropFails", "decodeFails", "drawFails"}

\* the message of the error an avatar step fails with (utils.js:49, utils.js:93,
\* the canvas library)
AvatarFailure(outcome) ==
    CASE outcome = "loadFails" -> <<"Failed to load image: ", "timeout of 5000ms exceeded">>
      [] outcome = "cropFails" -> <<"Avatar processing failed: ", "Could not find MIME for Buffer">>
      [] outcome = "decodeFails" -> <<"Unsupported image type">>
      [] OTHER -> <<"canvas: drawImage failed">>

AvatarPhrase == "Failed to load or process avatar for "

\* what the top-level handler looks for in a message: welcome and rank use
\* includes() with the username and the card's name, profile uses
\* startsWith() with the bare phrase
AvatarMarker(c, o) ==
    CASE c = "welcome" -> <<AvatarPhrase>> \o Interp(o.username) \o <<" (welcome image)">>
      [] c = "rank" -> <<AvatarPhrase>> \o Interp(o.username) \o <<" (rank card)">>
      [] OTHER -> <<AvatarPhrase>>

\* the message of the error the avatar stage's catch block throws
AvatarErrorMessage(c, o, inner) ==
    CASE c = "welcome" ->
           <<AvatarPhrase>> \o Interp(o.username) \o <<" (welcome image)", ". Reason: ">> \o inner
      [] c = "rank" ->
           <<AvatarPhrase>> \o Interp(o.username) \o <<" (rank card)", ". Reason: ">> \o inner
      [] OTHER ->
           <<AvatarPhrase>> \o Interp(o.username) \o <<". Reason: ">> \o inner

\* the draw calls of the avatar stage up to the point `outcome` fails
AvatarDraw(c, S, outcome) ==
    IF outcome \in {"loadFails", "cropFails", "decodeFails"} THEN S
    ELSE LET border == IF c = "welcome" THEN "avatarBorderColor" ELSE "#FFFFFF"
             disc == Draw(SetFillStyle(S, border), "fill", "avatarBorder")
         IN  IF c = "welcome"
             THEN IF outcome = "drawFails" THEN Save(disc)
                  ELSE Restore(Draw(Save(disc), "drawImage", "avatar"))
             ELSE IF outcome = "drawFails" THEN disc
                  ELSE Draw(disc, "drawImage", "avatar")

\* ----------------------------------------------------------- text stage
TextOutcomes == {"ok", "throws"}

TextColor == "#FFFFFF"

\* width * 0.8 (welcome) in width units
MaxMessageWidth == (WidthUnits * 8) \div 10

\* width - (30 + avatarSize + 20) - 30 (profile, 370 of 600 px) in width units
MaxBioWidth == (WidthUnits * 37) \div 60

RECURSIVE DrawLines(_, _, _, _)
\* lines.forEach(line => ctx.fillText(line, ...)) from line i on
DrawLines(S, lines, i, what) ==
    IF i > Len(lines) THEN S
    ELSE DrawLines(DrawAt(S, "fillText", what, i), lines, i + 1, what)

\* the lines a composer draws for a text: wrapText(...).split('\n')
WrappedLines(text, maxWidth) == Split(wrapText(Str(text), maxWidth).out, {"\n"})

\* mutant of WelcomeText: the shadow is not disabled before the message
WelcomeTextNoReset(o, S) ==
    LET s1 == applyTextShadow(S, o.shadow, "rgba(0, 0, 0, 0.7)", 8, 0, 3)
        s2 == Draw(SetFillStyle(s1, TextColor), "fillText", "title")
        s3 == applyTextShadow(s2, o.shadow, "default", 6, 0, 0)
        s4 == Draw(SetFillStyle(s3, TextColor), "fillText", "username")
    IN  DrawLines(SetFillStyle(s4, TextColor), WrappedLines(o.message, MaxMessageWidth),
                  1, "message")

\* generateWelcomeImage: title, username, message
WelcomeText(o, S) ==
    LET s1 == applyTextShadow(S, o.shadow, "rgba(0, 0, 0, 0.7)", 8, 0, 3)
        s2 == Draw(SetFillStyle(s1, TextColor), "fillText", "title")
        s3 == applyTextShadow(s2, o.shadow, "default", 6, 0, 0)
        s4 == Draw(SetFillStyle(s3, TextColor), "fillText", "username")
        s5 == applyTextShadow(s4, FALSE, "default", 0 - 1, 0 - 1, 0 - 1)
    IN  DrawLines(SetFillStyle(s5, TextColor), WrappedLines(o.message, MaxMessageWidth),
                  1, "message")

\* generateRankCard: username, rank, level, xp
RankText(o, S) ==
    LET s1 == applyTextShadow(S, o.shadow, "default", 0 - 1, 0 - 1, 0 - 1)
        s2 == Draw(SetFillStyle(s1, TextColor), "fillText", "username")
        s3 == Draw(s2, "fillText", "rank")
        s4 == Draw(s3, "fillText", "level")
    IN  Draw(s4, "fillText", "xp")

\* bio && bio.trim() !== ""
HasBio(o) == o.message # <<>> /\ Trim(o.message) # <<>>

\* generateProfileCard: username, bio
ProfileText(o, S) ==
    LET s1 == applyTextShadow(S, o.shadow, "default", 0 - 1, 0 - 1, 0 - 1)
        s2 == Draw(SetFillStyle(s1, TextColor), "fillText", "username")
        s3 == applyTextShadow(s2, FALSE, "default", 0 - 1, 0 - 1, 0 - 1)
    IN  IF HasBio(o)
        THEN DrawLines(SetFillStyle(s3, TextColor), WrappedLines(o.message, MaxBioWidth),
                       1, "bio")
        ELSE s3

\* generateServerBanner: dark overlay and the shadow settings, which precede
\* the first text call
BannerOverlay(o, S) ==
    LET s1 == FillCanvas(S, OverlayColor)
    IN  IF o.shadow
        THEN [s1 EXCEPT !.st.shadowColor = "rgba(0, 0, 0, 0.5)", !.st.shadowBlur = 10,
                        !.st.shadowOffsetX = 5, !.st.shadowOffsetY = 5]
        ELSE s1

\* generateServerBanner: server name, member count
BannerText(o, S) ==
    LET s1 == Draw(SetFillStyle(BannerOverlay(o, S), TextColor), "fillText", "serverName")
    IN  Draw(s1, "fillText", "members")

\* the text stage when nothing throws
TextStage(c, o, S) ==
    CASE c = "welcome" -> WelcomeText(o, S)
      [] c = "rank" -> RankText(o, S)
      [] c = "profile" -> ProfileText(o, S)
      [] OTHER -> BannerText(o, S)

\* the text stage when the first text call of the surface throws: only what
\* precedes that call has happened
TextStageThrown(c, o, S) ==
    CASE c = "welcome" -> applyTextShadow(S, o.shadow, "rgba(0, 0, 0, 0.7)", 8, 0, 3)
      [] c \in {"rank", "profile"} -> applyTextShadow(S, o.shadow, "default", 0 - 1, 0 - 1, 0 - 1)
      [] OTHER -> BannerOverlay(o, S)

\* memberCount.toLocaleString() throws on undefined and null
MemberCountThrows(o) == o.memberCount.type \in {"undefined", "null"}

\* generateServerBanner up to the TypeError of memberCount.toLocaleString()
BannerTextNoCount(o, S) ==
    Draw(SetFillStyle(BannerOverlay(o, S), TextColor), "fillText", "serverName")

\* ----------------------------------------------------- decoration stage
\* generateRankCard: width = 800 and avatarSize = 100 by default
RankWidth == 800
RankAvatarSize == 100

\* width - (30 + avatarSize + 20) - 30
progressBarWidth == RankWidth - (30 + RankAvatarSize + 20) - 30

\* Math.min(xp / requiredXp, 1)
currentProgress(o) == MathMin1(JsDivide(o.xp, o.requiredXp))

\* the number in `${Math.round(currentProgress * 100)}%`
percentText(o) == MathRound(JsTimes(100, currentProgress(o)))

\* generateRankCard: progress bar and percentage label
RankDecor(o, S) ==
    LET s1 == Draw(SetFillStyle(S, OverlayColor), "fillRect", "progressTrack")
        s2 == DrawValue(SetFillStyle(s1, "progressColor"), "fillRect", "progressFill",
                        JsTimes(progressBarWidth, currentProgress(o)))
        s3 == Draw(s2, "strokeRect", "progressOutline")
        s4 == applyTextShadow(s3, FALSE, "default", 0 - 1, 0 - 1, 0 - 1)
    IN  DrawValue(SetFillStyle(s4, TextColor), "fillText", "percent", percentText(o))

RECURSIVE DrawStats(_, _, _)
\* stats.forEach: name above value
DrawStats(S, n, i) ==
    IF i > n THEN S
    ELSE DrawStats(DrawAt(DrawAt(SetFillStyle(S, TextColor), "fillText", "statName", i),
                          "fillText", "statValue", i), n, i + 1)

\* generateProfileCard: the stat panel
ProfileStats(o, S) ==
    IF o.nStats > 0
    THEN LET s1 == Draw(SetFillStyle(S, "rgba(0, 0, 0, 0.3)"), "fill", "statPanel")
             s2 == applyTextShadow(s1, o.shadow, "default", 0 - 1, 0 - 1, 0 - 1)
             s3 == DrawStats(s2, o.nStats, 1)
         IN  applyTextShadow(s3, FALSE, "default", 0 - 1, 0 - 1, 0 - 1)
    ELSE S

\* const badgesPerRow = 5
BadgesPerRow == 5

\* the grid cell of the i-th badge (i from 1; the loop index is i - 1):
\* row = Math.floor(i / badgesPerRow), col = i % badgesPerRow
BadgeCell(i) == <<(i - 1) \div BadgesPerRow, (i - 1) % BadgesPerRow>>

\* mutant of BadgeIcon: a failed icon load draws nothing
BadgeIconNoPlaceholder(S, i, ok) ==
    IF ok THEN DrawCell(S, "drawImage", "badge", i, BadgeCell(i)) ELSE S

\* the try block of one badge: the icon, or in the catch the grey rectangle
\* and its 1px stroke
BadgeIcon(S, i, ok) ==
    IF ok
    THEN DrawCell(S, "drawImage", "badge", i, BadgeCell(i))
    ELSE LET grey == SetFillStyle(S, "rgba(128, 128, 128, 0.5)")
         IN  DrawCell(DrawCell(grey, "fillRect", "badgePlaceholder", i, BadgeCell(i)),
                      "strokeRect", "badgePlaceholder", i, BadgeCell(i))

RECURSIVE DrawBadges(_, _, _, _)
\* the badge loop from badge i on; iconOk[i] tells whether the i-th icon loads
DrawBadges(S, n, i, iconOk) ==
    IF i > n THEN S
    ELSE LET icon == BadgeIcon(S, i, iconOk[i])
             label == DrawCell(SetFillStyle(icon, TextColor), "fillText", "badgeName",
                               i, BadgeCell(i))
         IN  DrawBadges(label, n, i + 1, iconOk)

\* generateProfileCard: the badge grid
ProfileBadges(o, S, iconOk) ==
    IF o.nBadges > 0
    THEN DrawBadges(applyTextShadow(S, FALSE, "default", 0 - 1, 0 - 1, 0 - 1),
                    o.nBadges, 1, iconOk)
    ELSE S

\* the decoration stage when nothing throws
DecorStage(c, o, S, iconOk) ==
    CASE c = "rank" -> RankDecor(o, S)
      [] c = "profile" -> ProfileBadges(o, ProfileStats(o, S), iconOk)
      [] OTHER -> S

\* does the decoration stage call the surface at all?
DecorDraws(c, o) == c = "rank" \/ (c = "profile" /\ (o.nStats > 0 \/ o.nBadges > 0))

RECURSIVE BadgeLoads(_)
BadgeLoads(n) == IF n = 0 THEN <<>> ELSE Append(BadgeLoads(n - 1), "badge")

\* ---------------------------------------------------------- catch blocks
\* mutant of BackgroundCatch: the error is thrown on
BackgroundCatchRethrows(err) == err

\* the catch block of the background stage only logs: nothing is thrown on
BackgroundCatch(err) == NoError

\* mutant of AvatarCatch: the catch block only logs, as the background's does
AvatarCatchSwallows(c, o, inner, id) == NoError

\* the catch block of the avatar stage: throw new Error(`Failed to load or
\* process avatar for ${username} ... Reason: ${err.message}`)
AvatarCatch(c, o, inner, id) == MkError("Error", AvatarErrorMessage(c, o, inner.msg), id)

\* mutant of IsAvatarError: the handler wraps whatever it catches
IsAvatarErrorNever(c, o, msg) == FALSE

\* the test of the top-level handler for "already carries the identity"
IsAvatarError(c, o, msg) ==
    IF c = "profile" THEN StartsWith(msg, AvatarMarker(c, o))
    ELSE Includes(msg, AvatarMarker(c, o))

CardNoun(c) ==
    CASE c = "welcome" -> "welcome image"
      [] c = "rank" -> "rank card"
      [] OTHER -> "profile card"

\* the error the call rejects with when `e` reaches the end of the function
\* body: welcome, rank and profile have a top-level catch; the banner has
\* none; the animated composer logs and throws the same error on; the
\* slicing one throws a new error with a fixed message
TopLevelCatch(c, o, e, id) ==
    IF c \in ValidatingCards
    THEN IF IsAvatarError(c, o, e.msg) THEN e
         ELSE MkError("Error",
                      <<"Failed to generate ", CardNoun(c), " for ">> \o Interp(o.username)
                          \o <<". Reason: ">> \o e.msg,
                      id)
    ELSE IF c = "animatedSlice"
    THEN MkError("Error", <<"Failed to generate animated welcome image.">>, id)
    ELSE e

\* ------------------------------------------------------------ the call
VARIABLES
    card,       \* the entry point called
    opts,       \* its options
    pc,         \* the stage the call is about to run; "done" once settled
    S,          \* the drawing surface: state, save stack, operations issued
    surface,    \* has createCanvas been called?
    loads,      \* the asset loads started, in order
    stages,     \* the stages entered, in order
    pending,    \* the error travelling up to the end of the function body
    caught,     \* the error the end of the function body received
    thrownAt,   \* the stage that error came from
    result,     \* how the returned promise settled
    nextErr,    \* identity of the next error object created
    warnings,   \* console.warn calls of the font check
    bgOutcome,  \* what happened to the background load
    avOutcome,  \* what happened to the avatar load
    bgFrames,   \* animated: the decoded source frames
    frame,      \* animated: loop index i
    encoded,    \* animated: source frame index of each frame added to the encoder
    encLog,     \* animated: the encoder and output events, in order
    stream,     \* animated: the output write stream
    tempFile    \* animated: is the call's temp file on disk?

VARIABLES wpc, wtext, wmaxWidth, wresult

\* the encoder's output side
fvars == <<encLog, stream, tempFile>>

cvars == <<card, opts, pc, S, surface, loads, stages, pending, caught, thrownAt,
           result, nextErr, warnings, bgOutcome, avOutcome, bgFrames, frame, encoded,
           fvars>>

wvars == <<wpc, wtext, wmaxWidth, wresult>>

\* a sequence of applyTextShadow calls on one context
VARIABLES
    sctx,       \* the context: its drawing state
    sopts,      \* the options of the last call
    scalls      \* calls made so far

svars == <<sctx, sopts, scalls>>

\* a sequence of cropToCircle calls in one process
VARIABLES
    maskCache,  \* the module's maskCache: key -> mask
    cropLog,    \* per call: the size asked for, the mask used, the outcome
    cropOut     \* what the call that settled last returned

mvars == <<maskCache, cropLog, cropOut>>

\* the variables of the utility calls made on their own
\* the state of concurrent calls of the temp-file composer
VARIABLES
    tversion,   \* which temp-file version of generateAnimatedWelcome runs
    tclock,     \* Date.now(), in milliseconds since the first call
    tcalls,     \* per call: where it is, its temp path, what it returned
    tfiles      \* the temp directory: for each file, the calls that wrote to it
tvars == <<tversion, tclock, tcalls, tfiles>>

\* the state of the font loader
VARIABLES
    fontCache,  \* utils.js fontCache: the cache keys set so far
    fontLog,    \* one entry per loadFont call, in order
    fontCalls   \* calls of loadFont and registerFonts made so far
qvars == <<fontCache, fontLog, fontCalls>>

uvars == <<wvars, svars, mvars, qvars, tvars>>

vars == <<cvars, uvars>>

NoResult == [kind |-> "none", out |-> <<>>, calls |-> 0]

\* no wrapText call is under way
WrapIdle == wpc = "idle" /\ wtext = Undef /\ wmaxWidth = 0 /\ wresult = NoResult

\* the options object of applyTextShadow; "omitted", "default" and -1 stand
\* for a key left out
NoShadowOpts ==
    [enabled |-> "omitted", color |-> "default", blur |-> 0 - 1,
     offsetX |-> 0 - 1, offsetY |-> 0 - 1]

\* no applyTextShadow sequence is under way
ShadowIdle == sctx = FreshSurface /\ sopts = NoShadowOpts /\ scalls = 0

\* nothing returned yet
NoImage == [kind |-> "none", w |-> 0, h |-> 0, alpha |-> <<>>]

\* no cropToCircle call was made: the cache is the empty Map
CropIdle == maskCache = <<>> /\ cropLog = <<>> /\ cropOut = NoImage

\* no utility call is under way
\* the calls of the temp-file composer under way
Calls == {1, 2}
NoPath == <<0, "none">>
NoCall == [pc |-> "idle", path |-> NoPath, written |-> 0, returned |-> {}]

\* no concurrent call is under way
TempIdle ==
    /\ tversion = "none" /\ tclock = 0
    /\ tcalls = [c \in Calls |-> NoCall] /\ tfiles = {}

\* the font loader has not been used
FontIdle == fontCache = {} /\ fontLog = <<>> /\ fontCalls = 0

UtilsIdle == WrapIdle /\ ShadowIdle /\ CropIdle /\ FontIdle /\ TempIdle

Unsettled == [kind |-> "none", err |-> NoError]
Resolved == [kind |-> "buffer", err |-> NoError]
Rejected(e) == [kind |-> "rejected", err |-> e]

\* no render call is under way
ComposerIdle ==
    /\ card = "none" /\ opts = BaseOpts /\ pc = "idle" /\ S = FreshSurface
    /\ surface = FALSE /\ loads = <<>> /\ stages = <<>>
    /\ pending = NoError /\ caught = NoError /\ thrownAt = "none"
    /\ result = Unsettled /\ nextErr = 1 /\ warnings = 0
    /\ bgOutcome = "none" /\ avOutcome = "none"
    /\ bgFrames = <<>> /\ frame = 0 /\ encoded = <<>>
    /\ encLog = <<>> /\ stream = "none" /\ tempFile = "absent"

Init ==
    /\ card \in Composers
    /\ opts \in OptionsOf(card)
    /\ pc = "validate" /\ S = FreshSurface
    /\ surface = FALSE /\ loads = <<>> /\ stages = <<>>
    /\ pending = NoError /\ caught = NoError /\ thrownAt = "none"
    /\ result = Unsettled /\ nextErr = 1 /\ warnings = 0
    /\ bgOutcome = "none" /\ avOutcome = "none"
    /\ bgFrames = <<>> /\ frame = 0 /\ encoded = <<>>
    /\ encLog = <<>> /\ stream = "none" /\ tempFile = "absent"
    /\ UtilsIdle

\* mutant of AfterBackground: the text is drawn right after the background
AfterBackgroundText(c) == "text"

\* the stage after the background stage
AfterBackground(c) == IF c = "banner" THEN "text" ELSE "avatar"

\* the stage after the text stage
AfterText(c) == IF c \in {"rank", "profile"} THEN "decor" ELSE "serialize"

\* the message a failing background step fails with
BackgroundFailure(outcome) ==
    CASE outcome = "loadFails" -> <<"Failed to load image: ", "Request failed with status code 404">>
      [] outcome = "decodeFails" -> <<"Unsupported image type">>
      [] OTHER -> <<"canvas: drawImage failed">>

\* Stage 1: the validation block (or the bare destructuring), then the font
\* check of welcome, rank and profile
Validate ==
    /\ pc = "validate"
    /\ stages' = Append(stages, "validate")
    /\ LET m == ValidationMessage(card, opts)
       IN  IF m # <<>>
           THEN /\ result' = Rejected(MkError("TypeError", m, nextErr))
                /\ nextErr' = nextErr + 1
                /\ pc' = "done"
                /\ UNCHANGED warnings
           ELSE /\ pc' = IF card \in AnimatedCards THEN "setup" ELSE "surface"
                /\ warnings' = IF card \in ValidatingCards /\ FontWarns(opts.font)
                               THEN warnings + 1 ELSE warnings
                /\ UNCHANGED <<result, nextErr>>
    /\ UNCHANGED <<card, opts, S, surface, loads, pending, caught, thrownAt,
                   bgOutcome, avOutcome, bgFrames, frame, encoded, fvars, uvars>>

\* createCanvas(width, height); canvas.getContext('2d')
CreateSurface ==
    /\ pc = "surface"
    /\ surface' = TRUE
    /\ pc' = "background"
    /\ UNCHANGED <<card, opts, S, loads, stages, pending, caught, thrownAt, result,
                   nextErr, warnings, bgOutcome, avOutcome, bgFrames, frame, encoded,
                   fvars, uvars>>

\* Stage 2: background
Background ==
    /\ pc = "background"
    /\ stages' = Append(stages, "background")
    /\ \E outcome \in BgOutcomes :
          /\ LoadsBackground(card, opts) \/ outcome = "ok"
          /\ S' = BackgroundStage(card, opts, S, outcome)
          /\ loads' = IF LoadsBackground(card, opts) THEN Append(loads, "background")
                      ELSE loads
          /\ bgOutcome' = IF LoadsBackground(card, opts) THEN outcome ELSE "absent"
          /\ IF outcome = "ok"
             THEN /\ pc' = AfterBackground(card)
                  /\ UNCHANGED <<pending, thrownAt, nextErr>>
             ELSE LET e == BackgroundCatch(MkError("Error", BackgroundFailure(outcome), nextErr))
                  IN  /\ pending' = e
                      /\ nextErr' = nextErr + 1
                      /\ thrownAt' = IF e = NoError THEN thrownAt ELSE "background"
                      /\ pc' = IF e = NoError THEN AfterBackground(card) ELSE "handler"
    /\ UNCHANGED <<card, opts, surface, caught, result, warnings, avOutcome, bgFrames,
                   frame, encoded, fvars, uvars>>

\* Stage 3: avatar
Avatar ==
    /\ pc = "avatar"
    /\ stages' = Append(stages, "avatar")
    /\ loads' = Append(loads, "avatar")
    /\ \E outcome \in AvatarOutcomes :
          /\ avOutcome' = outcome
          /\ S' = AvatarDraw(card, S, outcome)
          /\ IF outcome = "ok"
             THEN /\ pc' = "text"
                  /\ UNCHANGED <<pending, thrownAt, nextErr>>
             ELSE LET inner == MkError("Error", AvatarFailure(outcome), nextErr)
                      e == AvatarCatch(card, opts, inner, nextErr + 1)
                  IN  /\ pending' = e
                      /\ nextErr' = nextErr + 2
                      /\ thrownAt' = IF e = NoError THEN thrownAt ELSE "avatar"
                      /\ pc' = IF e = NoError THEN "text" ELSE "handler"
    /\ UNCHANGED <<card, opts, surface, caught, result, warnings, bgOutcome, bgFrames,
                   frame, encoded, fvars, uvars>>

\* Stage 4: primary text
Text ==
    /\ pc = "text"
    /\ stages' = Append(stages, "text")
    /\ \E outcome \in TextOutcomes :
          IF outcome = "throws"
          THEN /\ S' = TextStageThrown(card, opts, S)
               /\ pending' = MkError("Error", <<"canvas: text call failed">>, nextErr)
               /\ nextErr' = nextErr + 1
               /\ thrownAt' = "text"
               /\ pc' = "handler"
          ELSE IF card = "banner" /\ MemberCountThrows(opts)
          THEN /\ S' = BannerTextNoCount(opts, S)
               /\ pending' = MkError("TypeError",
                     <<"Cannot read properties of undefined (reading 'toLocaleString')">>,
                     nextErr)
               /\ nextErr' = nextErr + 1
               /\ thrownAt' = "text"
               /\ pc' = "handler"
          ELSE /\ S' = TextStage(card, opts, S)
               /\ pc' = AfterText(card)
               /\ UNCHANGED <<pending, thrownAt, nextErr>>
    /\ UNCHANGED <<card, opts, surface, loads, caught, result, warnings, bgOutcome,
                   avOutcome, bgFrames, frame, encoded, fvars, uvars>>

\* Stage 5: decorations (rank: progress bar; profile: stats and badges)
Decorations ==
    /\ pc = "decor"
    /\ stages' = Append(stages, "decor")
    /\ \/ /\ DecorDraws(card, opts)
          /\ pending' = MkError("Error", <<"canvas: draw call failed">>, nextErr)
          /\ nextErr' = nextErr + 1
          /\ thrownAt' = "decor"
          /\ pc' = "handler"
          /\ UNCHANGED <<S, loads>>
       \/ \E iconOk \in [1..opts.nBadges -> BOOLEAN] :
             /\ S' = DecorStage(card, opts, S, iconOk)
             /\ loads' = loads \o BadgeLoads(opts.nBadges)
             /\ pc' = "serialize"
             /\ UNCHANGED <<pending, thrownAt, nextErr>>
    /\ UNCHANGED <<card, opts, surface, caught, result, warnings, bgOutcome,
                   avOutcome, bgFrames, frame, encoded, fvars, uvars>>

\* Stage 6: canvas.toBuffer('image/png')
Serialize ==
    /\ pc = "serialize"
    /\ stages' = Append(stages, "serialize")
    /\ \/ /\ result' = Resolved
          /\ pc' = "done"
          /\ UNCHANGED <<pending, thrownAt, nextErr>>
       \/ /\ pending' = MkError("Error", <<"canvas: toBuffer failed">>, nextErr)
          /\ nextErr' = nextErr + 1
          /\ thrownAt' = "serialize"
          /\ pc' = "handler"
          /\ UNCHANGED result
    /\ UNCHANGED <<card, opts, S, surface, loads, caught, warnings, bgOutcome,
                   avOutcome, bgFrames, frame, encoded, fvars, uvars>>

\* the finally block of the temp-file composer: if (tempFileCreated &&
\* fs.existsSync(tempPath)) fs.unlinkSync(tempPath)
Cleanup(c, file) == IF c = "animated" /\ file = "exists" THEN "absent" ELSE file

\* the end of the function body: the top-level catch where there is one, then
\* the finally block where there is one; the call rejects
Handler ==
    /\ pc = "handler"
    /\ caught' = pending
    /\ pending' = NoError
    /\ LET e == TopLevelCatch(card, opts, pending, nextErr)
       IN  /\ result' = Rejected(e)
           /\ nextErr' = IF e.id = nextErr THEN nextErr + 1 ELSE nextErr
    /\ tempFile' = Cleanup(card, tempFile)
    /\ pc' = "done"
    /\ UNCHANGED <<card, opts, S, surface, loads, stages, thrownAt, warnings,
                   bgOutcome, avOutcome, bgFrames, frame, encoded, encLog, stream, uvars>>

\* -------------------------------------------- the animated composers

\* loadGifFrames returns a one-element list on every successful path
LoadedFrames == <<0>>

\* the pages of the animation decoded by sharp(buffer, {animated: true})
DecodedPages(o) == [i \in 1..o.pages |-> i - 1]

\* Math.min(pages, 60)
SliceCap == 60

\* mutant of FrameCount: the cap of the slicing loop forgotten
FrameCountNoCap(c, o, frames) ==
    IF c = "animatedSlice" THEN Len(frames) ELSE o.frames

\* the bound of the frame loop: i < frames, or i < Math.min(pages, 60)
FrameCount(c, o, frames) ==
    IF c = "animatedSlice"
    THEN (IF Len(frames) < SliceCap THEN Len(frames) ELSE SliceCap)
    ELSE o.frames

\* mutant of SourceFrame: the modulo forgotten
SourceFrameNoModulo(c, i, frames) == i

\* the source frame the i-th frame is composed over: bgFrames[i %
\* bgFrames.length], or the i-th slice of the decoded data
SourceFrame(c, i, frames) == IF c = "animatedSlice" THEN i ELSE i % Len(frames)

\* the encoder is constructed and started; the temp-file composer chooses its
\* temp path and opens the write stream on it (the file itself is created
\* when the open completes), the slicing one creates its one canvas
AnimSetup ==
    /\ pc = "setup"
    /\ stages' = Append(stages, "setup")
    /\ stream' = IF card = "animated" THEN "opening" ELSE "none"
    /\ surface' = (card = "animatedSlice")
    /\ pc' = "assets"
    /\ UNCHANGED <<card, opts, S, loads, pending, caught, thrownAt, result,
                   nextErr, warnings, bgOutcome, avOutcome, bgFrames, frame, encoded,
                   encLog, tempFile, uvars>>

\* the open of the write stream completes: the temp file is on disk. Nothing
\* in the call waits for it before the flush, so it can come at any time
\* after the setup, also after the call has settled.
StreamOpens ==
    /\ stream = "opening"
    /\ stream' = "open"
    /\ tempFile' = "exists"
    /\ UNCHANGED <<card, opts, pc, S, surface, loads, stages, pending, caught, thrownAt,
                   result, nextErr, warnings, bgOutcome, avOutcome, bgFrames, frame,
                   encoded, encLog, uvars>>

\* the message of the error the first failing load rejects with
AssetFailure(c, o, first, av) ==
    IF first = "avatar"
    THEN (IF c = "animatedSlice" THEN <<"Failed to fetch image: ", "u">>
          ELSE AvatarFailure(av))
    ELSE IF c = "animatedSlice" THEN <<"Failed to fetch image: ", "bg">>
    ELSE <<"Background loading failed: ",
           IF o.background.kind = "none" THEN "No background source provided"
           ELSE "File not found">>

\* mutant of AfterAssets: the loop is entered when either load succeeded
AfterAssetsEither(av, bg) == IF av = "ok" \/ bg = "ok" THEN "frames" ELSE "handler"

\* where the call goes once both loads are settled or one has rejected: the
\* await of Promise.all throws unless both fulfilled
AfterAssets(av, bg) == IF av = "ok" /\ bg = "ok" THEN "frames" ELSE "handler"

\* Promise.all of the avatar load (then crop and decode) and the background
\* load: both are started, the first rejection rejects the whole
AnimAssets ==
    /\ pc = "assets"
    /\ stages' = Append(stages, "assets")
    /\ IF card = "animatedSlice" /\ opts.given # "object"
       THEN /\ pending' = MkError("TypeError",
                  <<"Cannot read properties of undefined (reading 'displayAvatarURL')">>,
                  nextErr)
            /\ nextErr' = nextErr + 1
            /\ thrownAt' = "assets"
            /\ pc' = "handler"
            /\ UNCHANGED <<loads, avOutcome, bgOutcome, bgFrames>>
       ELSE /\ loads' = loads \o <<"avatar", "background">>
            /\ \E av \in {"ok", "loadFails", "cropFails", "decodeFails"},
                  bg \in {"ok", "loadFails"} :
                  /\ (opts.background.kind = "none") => bg = "loadFails"
                  /\ (card = "animatedSlice") => av # "cropFails"
                  /\ avOutcome' = av
                  /\ bgOutcome' = bg
                  /\ IF AfterAssets(av, bg) = "frames"
                     THEN /\ bgFrames' = IF card = "animatedSlice" THEN DecodedPages(opts)
                                         ELSE LoadedFrames
                          /\ pc' = "frames"
                          /\ UNCHANGED <<pending, thrownAt, nextErr>>
                     ELSE /\ \E first \in {"avatar", "background"} :
                                /\ first = "avatar" => av # "ok"
                                /\ first = "background" => bg # "ok"
                                /\ pending' = MkError("Error",
                                                      AssetFailure(card, opts, first, av),
                                                      nextErr)
                          /\ nextErr' = nextErr + 1
                          /\ thrownAt' = "assets"
                          /\ pc' = "handler"
                          /\ UNCHANGED bgFrames
    /\ UNCHANGED <<card, opts, S, surface, caught, result, warnings, frame, encoded,
                   fvars, uvars>>

\* mutant of OnFrameError: the failed frame is left out and the animation
\* is finished without it
OnFrameErrorSkip(c) == "finalize"

\* where an error thrown while a frame is composed goes: nothing in the loop
\* catches it, so to the catch of the function
OnFrameError(c) == "handler"

\* one iteration of the frame loop (compose the frame, encoder.addFrame), or
\* its exit
AnimFrame ==
    /\ pc = "frames"
    /\ IF frame < FrameCount(card, opts, bgFrames)
       THEN \/ /\ encoded' = Append(encoded, SourceFrame(card, frame, bgFrames))
               /\ encLog' = Append(encLog, "addFrame")
               /\ frame' = frame + 1
               /\ surface' = TRUE
               /\ UNCHANGED <<pc, pending, thrownAt, nextErr>>
            \/ /\ pending' = MkError("Error", <<"Unsupported image type">>, nextErr)
               /\ nextErr' = nextErr + 1
               /\ thrownAt' = "frames"
               /\ pc' = OnFrameError(card)
               /\ UNCHANGED <<encoded, encLog, frame, surface>>
       ELSE /\ pc' = "finalize"
            /\ UNCHANGED <<encoded, encLog, frame, surface, pending, thrownAt, nextErr>>
    /\ UNCHANGED <<card, opts, S, loads, stages, caught, result, warnings, bgOutcome,
                   avOutcome, bgFrames, stream, tempFile, uvars>>

\* encoder.finish()
AnimFinish ==
    /\ pc = "finalize"
    /\ stages' = Append(stages, "finalize")
    /\ encLog' = Append(encLog, "finish")
    /\ pc' = IF card = "animated" THEN "flush" ELSE "read"
    /\ UNCHANGED <<card, opts, S, surface, loads, pending, caught, thrownAt, result,
                   nextErr, warnings, bgOutcome, avOutcome, bgFrames, frame, encoded,
                   stream, tempFile, uvars>>

\* the open of the write stream, or a write to it, fails while the call is
\* waiting for an asset or a frame image: the stream emits 'error', and the
\* call has no listener on it yet (they are attached at the flush)
StreamFails ==
    /\ card = "animated"
    /\ pc \in {"assets", "frames"}
    /\ stream \in {"opening", "open"}
    /\ stream' = "failed"
    /\ UNCHANGED <<card, opts, pc, S, surface, loads, stages, pending, caught, thrownAt,
                   result, nextErr, warnings, bgOutcome, avOutcome, bgFrames, frame,
                   encoded, encLog, tempFile, uvars>>

\* await the output stream with the two listeners just attached: 'finish'
\* once the opened stream has written everything, or 'error' if it fails
\* now. A stream that failed earlier emits neither again.
AnimFlush ==
    /\ pc = "flush"
    /\ stream = "open"
    /\ \/ /\ encLog' = Append(encLog, "flushed")
          /\ stream' = "closed"
          /\ pc' = "read"
          /\ UNCHANGED <<pending, thrownAt, nextErr>>
       \/ /\ pending' = MkError("Error", <<"ENOSPC: no space left on device, write">>, nextErr)
          /\ nextErr' = nextErr + 1
          /\ thrownAt' = "flush"
          /\ stream' = "failed"
          /\ pc' = "handler"
          /\ UNCHANGED encLog
    /\ UNCHANGED <<card, opts, S, surface, loads, stages, caught, result, warnings,
                   bgOutcome, avOutcome, bgFrames, frame, encoded, tempFile, uvars>>

\* the bytes are read (fs.readFileSync of the temp file, or
\* encoder.out.getData()) and returned; the finally block runs
AnimRead ==
    /\ pc = "read"
    /\ encLog' = Append(encLog, "read")
    /\ IF card = "animated" /\ tempFile # "exists"
       THEN /\ pending' = MkError("Error", <<"GIF file was not created">>, nextErr)
            /\ nextErr' = nextErr + 1
            /\ thrownAt' = "read"
            /\ pc' = "handler"
            /\ UNCHANGED <<result, tempFile>>
       ELSE /\ result' = Resolved
            /\ tempFile' = Cleanup(card, tempFile)
            /\ pc' = "done"
            /\ UNCHANGED <<pending, thrownAt, nextErr>>
    /\ UNCHANGED <<card, opts, S, surface, loads, stages, caught, warnings, bgOutcome,
                   avOutcome, bgFrames, frame, encoded, stream, uvars>>

Next ==
    \/ Validate
    \/ CreateSurface
    \/ Background
    \/ Avatar
    \/ Text
    \/ Decorations
    \/ Serialize
    \/ Handler
    \/ AnimSetup
    \/ StreamOpens
    \/ StreamFails
    \/ AnimAssets
    \/ AnimFrame
    \/ AnimFinish
    \/ AnimFlush
    \/ AnimRead

Spec == Init /\ [][Next]_vars

\* The calls of the animated composers alone, with fairness: the event loop
\* runs every continuation that is ready, and every load and every stream
\* operation under way completes or fails.
AnimInit == Init /\ card \in AnimatedCards

AnimNext ==
    \/ Validate
    \/ Handler
    \/ AnimSetup
    \/ StreamOpens
    \/ StreamFails
    \/ AnimAssets
    \/ AnimFrame
    \/ AnimFinish
    \/ AnimFlush
    \/ AnimRead

AnimSpec == AnimInit /\ [][AnimNext]_vars /\ WF_vars(AnimNext)

\* ------------------------------------------------ the composers: claims
\* a value that is a number in the everyday sense: typeof 'number', not NaN
IsNumeric(v) == TypeOf(v) = "number" /\ ~v.nan

\* the options the validation is said to reject
SaidInvalid(c, o) ==
    \/ o.given # "object"
    \/ TypeOf(o.username) # "string" \/ Trim(o.username.s) = <<>>
    \/ TypeOf(o.avatarURL) # "string" \/ Trim(o.avatarURL.s) = <<>>
    \/ /\ c = "rank"
       /\ \/ ~IsNumeric(o.level) \/ o.level.n < 0
          \/ ~IsNumeric(o.xp) \/ o.xp.n < 0
          \/ ~IsNumeric(o.rank) \/ o.rank.n < 0
          \/ ~(IsNumeric(o.requiredXp) /\ o.requiredXp.n > 0)

\* C1 (as claimed): a call of a validating composer with missing options, a
\* username or avatarURL that is not a non-empty string, or (rank) a level,
\* xp or rank that is negative or non-numeric or a requiredXp that is not a
\* positive number, rejects with a TypeError before any load is started, any
\* surface is created or any draw is issued, and returns no buffer.
C1_InvalidOptionsRejectedFirst ==
    (card \in ValidatingCards /\ SaidInvalid(card, opts)) =>
        /\ loads = <<>> /\ ~surface /\ S.ops = <<>>
        /\ result.kind # "buffer"
        /\ pc \in {"validate", "done"}
        /\ pc = "done" => result.kind = "rejected" /\ result.err.kind = "TypeError"

AvatarInputFailures == {"loadFails", "cropFails", "decodeFails"}

\* C2: in welcome, rank and profile, when loading, cropping or decoding the
\* avatar fails, the text, decoration and serialize stages never run, no
\* buffer is returned, and the call rejects with a message that names the
\* username.
C2_AvatarFailureIsFatal ==
    (card \in AvatarCards /\ avOutcome \in AvatarInputFailures) =>
        /\ \A i \in 1..Len(stages) : stages[i] \notin {"text", "decor", "serialize"}
        /\ result.kind # "buffer"
        /\ pc \in {"handler", "done"}
        /\ pc = "done" =>
              /\ result.kind = "rejected"
              /\ Includes(result.err.msg, opts.username.s)

C2_Witness ==
    /\ card \in AvatarCards /\ avOutcome = "cropFails"
    /\ pc = "done" /\ result.kind = "rejected"
    /\ Includes(result.err.msg, Ada)
    /\ S.ops # <<>>

\* the composers that draw one card on one surface
StaticCards == {"welcome", "rank", "profile", "banner"}

\* position of the background stage in `stages`
BackgroundAt == CHOOSE i \in 1..Len(stages) : stages[i] = "background"

\* C3: in every card composer a failure while loading, decoding or
\* compositing the background is caught inside the background stage: it is
\* never the error the call rejects with, the surface is filled with `color`,
\* and the next stage (avatar; text for the banner) is entered.
C3_BackgroundFailureContained ==
    (card \in StaticCards /\ bgOutcome \in BgOutcomes \ {"ok"}) =>
        /\ thrownAt # "background"
        /\ pending.msg # BackgroundFailure(bgOutcome)
        /\ result.kind = "rejected" => result.err.msg # BackgroundFailure(bgOutcome)
        /\ S.ops # <<>>
        /\ S.ops[1].op = "fillRect" /\ S.ops[1].what = "canvas"
        /\ S.ops[1].st.fillStyle = UserColor
        /\ Len(stages) = BackgroundAt => pc = AfterBackground(card)
        /\ Len(stages) > BackgroundAt => stages[BackgroundAt + 1] = AfterBackground(card)

C3_Witness ==
    /\ card = "banner" /\ bgOutcome = "decodeFails"
    /\ pc = "done" /\ result.kind = "buffer"
    /\ S.ops[1].st.fillStyle = UserColor

\* the same options with no background at all
WithoutBackground(o) == [o EXCEPT !.background = NoBackground]

\* is p a prefix of q?
IsPrefix(p, q) == Len(p) <= Len(q) /\ SubSeq(q, 1, Len(p)) = p

\* C4: a render whose background is a raw reference that fails to load leaves
\* the background stage with exactly the operations, fill colour and surface
\* state (globalAlpha, filter) of the render of the same options without a
\* background, and every later operation follows those.
C4_FailedBackgroundAsNoBackground ==
    (card \in StaticCards /\ opts.background.kind = "ref"
         /\ bgOutcome \in {"loadFails", "decodeFails"}) =>
        LET plain == BackgroundStage(card, WithoutBackground(opts), FreshSurface, "ok")
        IN  /\ IsPrefix(plain.ops, S.ops)
            /\ Len(stages) = BackgroundAt => S = plain
            /\ Len(plain.ops) = 1
            /\ plain.ops[1].st.fillStyle = UserColor
            /\ plain.ops[1].st.globalAlpha = 100
            /\ plain.ops[1].st.filter = "none"

C4_Witness ==
    /\ card = "welcome" /\ opts.background.kind = "ref" /\ bgOutcome = "loadFails"
    /\ Len(stages) = BackgroundAt
    /\ S = BackgroundStage(card, WithoutBackground(opts), FreshSurface, "ok")
    /\ Len(S.ops) = 1

RECURSIVE Occurrences(_, _)
\* how many times sub occurs in msg
Occurrences(msg, sub) ==
    IF Len(msg) < Len(sub) THEN 0
    ELSE (IF SubSeq(msg, 1, Len(sub)) = sub THEN 1 ELSE 0) + Occurrences(Tail(msg), sub)

\* C5: in welcome, rank and profile an error of the avatar stage is rejected
\* with unchanged by the top-level handler (same error object, same message);
\* an uncaught error of the text, decoration or serialize stage is replaced
\* by one new error whose message contains the username and the original
\* message; either way the username is in the message exactly once.
C5_WrappedExactlyOnce ==
    (card \in ValidatingCards /\ pc = "done" /\ thrownAt # "none") =>
        /\ result.kind = "rejected"
        /\ Occurrences(result.err.msg, opts.username.s) = 1
        /\ thrownAt = "avatar" => result.err = caught
        /\ thrownAt \in {"text", "decor", "serialize"} =>
              /\ result.err.id # caught.id
              /\ result.err.id > caught.id
              /\ Includes(result.err.msg, opts.username.s)
              /\ Includes(result.err.msg, caught.msg)

C5_Witness ==
    /\ card = "profile" /\ pc = "done" /\ thrownAt = "avatar"
    /\ result.kind = "rejected" /\ result.err = caught
    /\ StartsWith(caught.msg, <<AvatarPhrase>>)

\* C6 (as claimed): every error an entry point rejects with once its inputs
\* passed validation has the subject's name (username; server name for the
\* banner) in its message.
C6_RejectionNamesSubject ==
    (/\ pc = "done" /\ result.kind = "rejected"
     /\ ValidationMessage(card, opts) = <<>>
     /\ TypeOf(SubjectName(card, opts)) = "string") =>
        Includes(result.err.msg, SubjectName(card, opts).s)

\* ======================================================================
\* wrapText on its own
\* ======================================================================
WrapInit ==
    /\ wpc = "call"
    /\ \E in \in WrapInputs : wtext = in[1] /\ wmaxWidth = in[2]
    /\ wresult = NoResult
    /\ ComposerIdle /\ ShadowIdle /\ CropIdle /\ FontIdle /\ TempIdle

\* one call of wrapText(ctx, wtext, wmaxWidth)
CallWrapText ==
    /\ wpc = "call"
    /\ wresult' = wrapText(wtext, wmaxWidth)
    /\ wpc' = "returned"
    /\ UNCHANGED <<wtext, wmaxWidth, cvars, svars, mvars, qvars, tvars>>

WrapNext == CallWrapText

WrapSpec == WrapInit /\ [][WrapNext]_vars

\* ------------------------------------------------- wrapText: the claims
\* the words of the text handed in, as the code splits them
TextWords == Split(wtext.s, {" "})

\* the lines of the returned string, as the composers split it
OutLines == Split(wresult.out, {"\n"})

IsNonEmptyString(v) == TypeOf(v) = "string" /\ v.s # <<>>

NoWordTooWide == \A i \in 1..Len(TextWords) : measureText(TextWords[i]) <= wmaxWidth

RECURSIVE Without(_, _)
\* the characters of s that are not in drop, in order
Without(s, drop) ==
    IF s = <<>> THEN <<>>
    ELSE IF Head(s) \in drop THEN Without(Tail(s), drop)
    ELSE <<Head(s)>> \o Without(Tail(s), drop)

C8_LongWordBrokenNothingDropped ==
    (wpc = "returned" /\ IsNonEmptyString(wtext) /\ ~NoWordTooWide) =>
        /\ Without(wresult.out, {"\n", " ", "-"}) = Without(wtext.s, {" "})
        /\ (wtext.s = Supercali /\ wmaxWidth = 10 => Len(OutLines) = 4)

\* single-spaced text: no leading, trailing or doubled space
NoEmptyWord == \A i \in 1..Len(TextWords) : TextWords[i] # <<>>

\* the first word of a line
FirstWord(line) == Split(line, {" "})[1]

\* C9 (as claimed): when no word is wider than maxWidth every line is the
\* longest run of words that fits, a line of exactly maxWidth counting as
\* fitting: no line could have taken the first word of the next one; the
\* sentence of the tests at maxWidth 200 px begins 'A very long sentence'.
C9_GreedyLongestRun ==
    (wpc = "returned" /\ IsNonEmptyString(wtext) /\ NoWordTooWide /\ NoEmptyWord) =>
        /\ \A i \in 1..Len(OutLines) : measureText(OutLines[i]) <= wmaxWidth
        /\ \A i \in 1..(Len(OutLines) - 1) :
              measureText(OutLines[i] \o <<" ">> \o FirstWord(OutLines[i + 1])) > wmaxWidth
        /\ (wtext.s = AVeryLong /\ wmaxWidth = 20 => OutLines[1] = AVeryLongSentence)

\* C10: for the empty string, null, undefined and every other non-string
\* text, whatever maxWidth is, wrapText returns the empty string, raises
\* nothing and never calls the measuring function.
C10_BlankTextGivesEmpty ==
    (wpc = "returned" /\ ~IsNonEmptyString(wtext)) =>
        /\ wresult.kind = "ok"
        /\ wresult.out = <<>>
        /\ wresult.calls = 0

\* C10 witness: wrapText has returned for a truthy value that is no string
C10_Witness ==
    /\ wpc = "returned"
    /\ TypeOf(wtext) # "string" /\ ~Falsy(wtext)
    /\ wresult.kind = "ok" /\ wresult.out = <<>>

\* not even one character of any word, followed by '-', fits
NoPieceFits ==
    \A i \in 1..Len(TextWords) :
        TextWords[i] # <<>> => measureText(<<TextWords[i][1], "-">>) > wmaxWidth

\* C11: when maxWidth is so small that no piece of a word followed by '-'
\* fits (maxWidth <= 0 in particular), wrapText returns every word of the
\* text unmodified, one per line, in the original order; a one-word text
\* comes back as that word.
C11_TinyWidthOneWordPerLine ==
    (wpc = "returned" /\ IsNonEmptyString(wtext) /\ NoEmptyWord /\ NoPieceFits) =>
        /\ wresult.kind = "ok"
        /\ OutLines = TextWords
        /\ wresult.out = Join(TextWords, "\n")
        /\ Len(TextWords) = 1 => wresult.out = wtext.s

C11_Witness ==
    /\ wpc = "returned" /\ IsNonEmptyString(wtext) /\ NoEmptyWord /\ NoPieceFits
    /\ wmaxWidth <= 0
    /\ Len(TextWords) >= 2
    /\ \E i \in 2..Len(TextWords) : Len(TextWords[i]) >= 2
    /\ OutLines = TextWords

\* ======================================================================
\* applyTextShadow on its own
\* ======================================================================
\* most calls in one sequence
MaxShadowCalls == 2

\* the options objects handed in: each key given or left out
ShadowOptions ==
    [enabled : {"omitted", "true", "false"}, color : {"default", "red", "blue"},
     blur : {0 - 1, 10}, offsetX : {0 - 1, 5}, offsetY : {0 - 1, 5}]

\* enabled = true in the destructuring of the options
EnabledOrDefault(e) == e # "false"

ShadowInit ==
    /\ sctx = FreshSurface /\ sopts = NoShadowOpts /\ scalls = 0
    /\ ComposerIdle /\ WrapIdle /\ CropIdle /\ FontIdle /\ TempIdle

\* one call applyTextShadow(ctx, o)
CallApplyTextShadow ==
    /\ scalls < MaxShadowCalls
    /\ \E o \in ShadowOptions :
          /\ sopts' = o
          /\ sctx' = applyTextShadow(sctx, EnabledOrDefault(o.enabled), o.color, o.blur,
                                     o.offsetX, o.offsetY)
    /\ scalls' = scalls + 1
    /\ UNCHANGED <<cvars, wvars, mvars, qvars, tvars>>

ShadowNext == CallApplyTextShadow

ShadowSpec == ShadowInit /\ [][ShadowNext]_vars

\* the four shadow properties of a context
ShadowOf(ctx) ==
    <<ctx.st.shadowColor, ctx.st.shadowBlur, ctx.st.shadowOffsetX, ctx.st.shadowOffsetY>>

\* C12: after applyTextShadow(ctx, opts) the four shadow properties depend on
\* opts alone, whatever an earlier call left: enabled true or omitted gives
\* each property its given value or its default ('rgba(0, 0, 0, 0.5)', 5, 2,
\* 2); enabled false gives 'transparent', 0, 0, 0.
C12_ShadowIsFunctionOfOptions ==
    scalls > 0 =>
        IF sopts.enabled = "false"
        THEN ShadowOf(sctx) = <<"transparent", 0, 0, 0>>
        ELSE ShadowOf(sctx) =
               << IF sopts.color = "default" THEN "rgba(0, 0, 0, 0.5)" ELSE sopts.color,
                  IF sopts.blur = 0 - 1 THEN 5 ELSE sopts.blur,
                  IF sopts.offsetX = 0 - 1 THEN 2 ELSE sopts.offsetX,
                  IF sopts.offsetY = 0 - 1 THEN 2 ELSE sopts.offsetY >>

C12_Witness ==
    /\ scalls = 2
    /\ sopts.enabled = "omitted" /\ sopts.color = "default" /\ sopts.blur = 10
    /\ ShadowOf(sctx) = <<"rgba(0, 0, 0, 0.5)", 10, 2, 2>>

\* the operations of the surface that drew `what`
OpsOf(what) == {i \in 1..Len(S.ops) : S.ops[i].what = what}

\* has the decoration stage run to its end?
DecorDone == \E i \in 1..Len(stages) : stages[i] = "serialize"

\* C13 (as claimed): for every rank-card input that passes validation the
\* progress fill is barWidth * min(xp / requiredXp, 1) wide, between 0 and
\* barWidth, and the label is that ratio times 100 rounded half up, between
\* 0% and 100%; xp = 1250 of 2000 gives 0.625 * barWidth and 63%.
C13_ProgressFillAndLabel ==
    (card = "rank" /\ DecorDone) =>
        /\ OpsOf("progressFill") # {} /\ OpsOf("percent") # {}
        /\ \A i \in OpsOf("progressFill") :
              LET w == S.ops[i].v
              IN  /\ ~w.nan
                  /\ 0 <= w.num /\ w.num <= progressBarWidth * w.den
                  /\ IF opts.xp.n >= opts.requiredXp.n
                     THEN w.num = progressBarWidth * w.den
                     ELSE w.num * opts.requiredXp.n = progressBarWidth * opts.xp.n * w.den
                  /\ (opts.xp.n = 1250 /\ opts.requiredXp.n = 2000) =>
                        1000 * w.num = 625 * progressBarWidth * w.den
        /\ \A i \in OpsOf("percent") :
              LET p == S.ops[i].v
              IN  /\ ~p.nan /\ p.den = 1
                  /\ 0 <= p.num /\ p.num <= 100
                  /\ IF opts.xp.n >= opts.requiredXp.n THEN p.num = 100
                     ELSE /\ 2 * opts.requiredXp.n * p.num <= 200 * opts.xp.n + opts.requiredXp.n
                          /\ 200 * opts.xp.n + opts.requiredXp.n < 2 * opts.requiredXp.n * (p.num + 1)
                  /\ (opts.xp.n = 1250 /\ opts.requiredXp.n = 2000) => p.num = 63

\* ======================================================================
\* cropToCircle and its mask cache
\* ======================================================================
\* largest diameter asked for, and most calls in one process
MaxDiameter == 4
MaxCrops == 3

\* mutant of MaskKey: the size left out of the key
MaskKeyNoSize(size) == <<"circle-mask-">>

\* `circle-mask-${size}`
MaskKey(size) == <<"circle-mask-", size>>

RECURSIVE CeilSqrtIn(_, _, _)
\* the least c in lo..hi with c * c >= t (hi * hi >= t)
CeilSqrtIn(t, lo, hi) ==
    IF lo = hi THEN lo
    ELSE LET mid == (lo + hi) \div 2
         IN  IF mid * mid >= t THEN CeilSqrtIn(t, lo, mid) ELSE CeilSqrtIn(t, mid + 1, hi)

\* Math.round(Math.max(0, 255 - Math.max(0, distance - radius + 0.5) * 255))
\* with radius = center = size / 2 and distance from (x, y) to the center.
\* With d2 = (2x - size)^2 + (2y - size)^2 the value rounded is
\* (255 * size + 255 - 255 * sqrt(d2)) / 2, capped at 255 and at 0 from
\* below, so alpha is the largest a in 0..255 with
\* 255 * sqrt(d2) <= 255 * size + 256 - 2a, or 0 when there is none.
MaskAlpha(x, y, size) ==
    LET d2 == (2 * x - size) * (2 * x - size) + (2 * y - size) * (2 * y - size)
        root == CeilSqrtIn(255 * 255 * d2, 0, 255 * 2 * size)
        a == (255 * size + 256 - root) \div 2
    IN  IF 255 * size + 256 - root < 0 THEN 0
        ELSE IF a > 255 THEN 255 ELSE a

\* the pixels of new Jimp(size, size) after the two loops
NewMask(size) ==
    [w |-> size, h |-> size,
     alpha |-> [xy \in (0..(size - 1)) \X (0..(size - 1)) |-> MaskAlpha(xy[1], xy[2], size)]]

\* the source images handed in: decodable (opaque, w x h) or not
SourceImages ==
    { [decodes |-> TRUE, w |-> 3, h |-> 2], [decodes |-> TRUE, w |-> 2, h |-> 2],
      [decodes |-> TRUE, w |-> 1, h |-> 5], [decodes |-> FALSE, w |-> 0, h |-> 0] }

\* image.cover(size, size).mask(mask): an opaque size x size image whose
\* alpha is multiplied by the mask's
CoverAndMask(size, mask) ==
    [kind |-> "ok", w |-> size, h |-> size,
     alpha |-> [xy \in (0..(size - 1)) \X (0..(size - 1)) |-> (255 * mask.alpha[xy]) \div 255]]

CropFailed == [kind |-> "throw", w |-> 0, h |-> 0, alpha |-> <<>>]

CropInit ==
    /\ maskCache = <<>> /\ cropLog = <<>> /\ cropOut = NoImage
    /\ ComposerIdle /\ WrapIdle /\ ShadowIdle /\ FontIdle /\ TempIdle

\* mutant of CacheHit: the lookup never finds the mask
CacheHitNever(cache, maskKey) == FALSE

\* maskCache.get(maskKey) found a mask
CacheHit(cache, maskKey) == maskKey \in DOMAIN cache

\* mask.clone(): a copy with the same pixels
Clone(mask) == mask

\* the calls whose buffer is still being decoded, and how many have settled
CropsPending == {i \in 1..Len(cropLog) : cropLog[i].settled = 0}
CropsSettled == Cardinality({i \in 1..Len(cropLog) : cropLog[i].settled > 0})

\* a call cropToCircle(buffer, size) up to its first await: the mask is
\* looked up or built and cached in one synchronous stretch, then the decoding
\* of the buffer is started; other calls can run before it completes
CallCropToCircle ==
    /\ Len(cropLog) < MaxCrops
    /\ \E size \in 1..MaxDiameter, img \in SourceImages :
          LET maskKey == MaskKey(size)
              hit == CacheHit(maskCache, maskKey)
              mask == IF hit THEN maskCache[maskKey] ELSE NewMask(size)
          IN  /\ maskCache' = IF hit THEN maskCache
                              ELSE [k \in DOMAIN maskCache \cup {maskKey} |->
                                       IF k = maskKey THEN mask ELSE maskCache[k]]
              /\ cropLog' = Append(cropLog, [size |-> size, mask |-> mask,
                                             ok |-> img.decodes, built |-> ~hit,
                                             settled |-> 0])
    /\ UNCHANGED <<cropOut, cvars, wvars, svars, qvars, tvars>>

\* the decoding of one call's buffer completes: the call composes the image
\* with a clone of its mask and returns, or throws
CropSettles ==
    /\ \E i \in CropsPending :
          /\ cropLog' = [cropLog EXCEPT ![i].settled = CropsSettled + 1]
          /\ cropOut' = IF cropLog[i].ok
                        THEN CoverAndMask(cropLog[i].size, Clone(cropLog[i].mask))
                        ELSE CropFailed
    /\ UNCHANGED <<maskCache, cvars, wvars, svars, qvars, tvars>>

CropNext == CallCropToCircle \/ CropSettles

CropSpec == CropInit /\ [][CropNext]_vars

\* the diameters asked for so far
UsedDiameters == {cropLog[i].size : i \in 1..Len(cropLog)}

\* C14: after any sequence of cropToCircle calls, successful or failing, the
\* mask cache holds for each diameter used so far exactly one mask, the one
\* computed for that diameter: calls with the same diameter use masks with
\* identical pixel data, and different diameters never share a cache entry.
C14_MaskCachePerDiameter ==
    /\ DOMAIN maskCache = {MaskKey(d) : d \in UsedDiameters}
    /\ \A d \in UsedDiameters : maskCache[MaskKey(d)] = NewMask(d)
    /\ \A d, e \in UsedDiameters : d # e => MaskKey(d) # MaskKey(e)
    /\ \A i, j \in 1..Len(cropLog) :
          /\ cropLog[i].size = cropLog[j].size => cropLog[i].mask = cropLog[j].mask
          /\ cropLog[i].mask.w = cropLog[i].size /\ cropLog[i].mask.h = cropLog[i].size

C14_Witness ==
    /\ Len(cropLog) = 3
    /\ cropLog[1].size = 2 /\ ~cropLog[1].ok
    /\ cropLog[2].size = 3 /\ cropLog[2].ok
    /\ cropLog[3].size = 2 /\ cropLog[3].ok
    /\ cropLog[3].mask = cropLog[1].mask
    /\ DOMAIN maskCache = {MaskKey(2), MaskKey(3)}

\* the call that returned cropOut
LastCrop == cropLog[CHOOSE i \in 1..Len(cropLog) : cropLog[i].settled = CropsSettled]

\* C15 (as claimed): for every integer diameter d > 0 and every opaque source
\* image, square or not, cropToCircle yields an image of exactly d x d pixels
\* whose four corner pixels have alpha 0 and whose centre pixel has alpha 255,
\* the mask alpha at (x, y) being the rounded soft-edge formula.
C15_CroppedCornersAndCentre ==
    (CropsSettled > 0 /\ cropOut.kind = "ok") =>
        LET d == LastCrop.size
        IN  /\ cropOut.w = d /\ cropOut.h = d
            /\ \A xy \in (0..(d - 1)) \X (0..(d - 1)) :
                  LastCrop.mask.alpha[xy] = MaskAlpha(xy[1], xy[2], d)
            /\ \A xy \in {0, d - 1} \X {0, d - 1} : cropOut.alpha[xy] = 0
            /\ cropOut.alpha[<<d \div 2, d \div 2>>] = 255

\* ------------------------------------------- the animated composers: claims
\* the frame loop of the call has run to its end
LoopDone == pc \in {"finalize", "flush", "read"} \/ result = Resolved

Least(a, b) == IF a < b THEN a ELSE b

\* C17 as stated: the number of frames handed to the encoder in one call is
\* min(configured frames, available source frames), so never more than the
\* source frames available, and never more than 60 in the slicing variant.
C17_FrameCountIsMinimum ==
    (card \in AnimatedCards /\ bgFrames # <<>>) =>
        /\ Len(encoded) <= Len(bgFrames)
        /\ (card = "animated" /\ LoopDone) =>
               Len(encoded) = Least(opts.frames, Len(bgFrames))
        /\ card = "animatedSlice" => Len(encoded) <= 60

\* C17, amended: the composer with a configured frame count hands exactly the
\* configured number of frames to the encoder, whatever the number of source
\* frames; the slicing variant hands min(pages, 60) frames, so never more than
\* the pages decoded and never more than 60.
C17_FrameCountPerVariant ==
    (card \in AnimatedCards /\ bgFrames # <<>>) =>
        /\ card = "animated" =>
               /\ Len(encoded) <= opts.frames
               /\ LoopDone => Len(encoded) = opts.frames
        /\ card = "animatedSlice" =>
               /\ Len(encoded) <= Least(opts.pages, 60)
               /\ LoopDone => Len(encoded) = Least(opts.pages, 60)

C17_Witness ==
    /\ card = "animatedSlice" /\ result = Resolved
    /\ opts.pages > 60 /\ Len(encoded) = 60

\* one of the two loads of the asset stage failed
AssetLoadFailed == avOutcome \notin {"none", "ok"} \/ bgOutcome \notin {"none", "ok"}

\* C18: if the avatar fetch or crop, or the loading of the background
\* frames, fails, no frame is composed and none is added to the encoder,
\* whichever of the two loads fails first, and the call rejects.
C18_NoFrameAfterFailedLoad ==
    (card \in AnimatedCards /\ AssetLoadFailed) =>
        /\ encoded = <<>> /\ encLog = <<>> /\ frame = 0
        /\ pc \in {"handler", "done"}
        /\ pc = "done" => result.kind = "rejected"

C18_Witness ==
    /\ card = "animated" /\ pc = "done" /\ result.kind = "rejected"
    /\ avOutcome = "cropFails" /\ bgOutcome = "loadFails"
    /\ caught.msg[1] = "Background loading failed: "
    /\ encoded = <<>>

\* C19: on every exit path of the temp-file composer, once the promise has
\* settled and the pending I/O of the output stream has completed, the temp
\* file of the call does not exist, however the asynchronous opening of the
\* stream interleaves with the failure and the cleanup check.
C19_TempFileRemovedOnEveryExit ==
    (card = "animated" /\ pc = "done" /\ stream # "opening") => tempFile = "absent"

\* the events of a complete run of n frames
CompleteRun(n) == [i \in 1..n |-> "addFrame"] \o <<"finish">>

\* the frames the loop of the call is to add
LoopLength == IF card = "animated" THEN opts.frames ELSE Least(opts.pages, 60)

\* C20: the call resolves with a byte buffer only when all frames of the loop
\* were added to the encoder, then the encoder was finished, then the output
\* was flushed (where it goes through a stream) and read, in that order; no
\* frame is added after finish; and when composing a frame fails the call
\* rejects and returns no bytes.
C20_BufferOnlyAfterCompleteRun ==
    card \in AnimatedCards =>
        /\ result.kind = "buffer" =>
               /\ encLog = CompleteRun(LoopLength) \o
                           (IF card = "animated" THEN <<"flushed", "read">>
                            ELSE <<"read">>)
               /\ Len(encoded) = LoopLength
               /\ thrownAt = "none"
        /\ \A i, j \in 1..Len(encLog) :
               (encLog[i] = "finish" /\ i < j) => encLog[j] # "addFrame"
        /\ thrownAt = "frames" =>
               /\ result.kind # "buffer"
               /\ "finish" \notin {encLog[i] : i \in 1..Len(encLog)}
               /\ pc = "done" => result.kind = "rejected"

C20_Witness ==
    /\ card = "animated" /\ result.kind = "buffer"
    /\ Len(encoded) = MaxFrames
    /\ encLog = CompleteRun(MaxFrames) \o <<"flushed", "read">>

\* ------------------------------------------------- the font check: claims
\* the family asked for is neither generic (whatever its case) nor registered
UnknownFamily(f) ==
    /\ \A g \in {"sans-serif", "serif", "monospace"} : LowerCase(f) # g
    /\ f \notin RegisteredFontFamilies

MaxFontCalls == 2

\* the current working directory, and the font files on disk
WorkingDir == <<"/f/">>
FontFiles == { <<"/f/", "Inter">>, <<"/f/", "Inter", "-", "Tight">> }

\* path.resolve(fontPath)
Resolve(p) == IF p # <<>> /\ p[1] = "/f/" THEN p ELSE WorkingDir \o p

\* options.weight || 'normal'; an absent value is the empty sequence
OrNormal(w) == IF w = <<>> THEN <<"normal">> ELSE w

\* `${resolvedPath}-${options.family}-${options.weight || 'normal'}-${options.style || 'normal'}`
CacheKey(resolvedPath, options) ==
    resolvedPath \o <<"-">> \o options.family
                 \o <<"-">> \o OrNormal(options.weight)
                 \o <<"-">> \o OrNormal(options.style)

\* the fonts the calls are made with
FontInputs ==
    [path : {<<"Inter">>, <<"/f/", "Inter", "-", "Tight">>, <<"/f/", "Missing">>},
     family : {<<"Tight", "-", "Bold">>, <<"Bold">>},
     weight : {<<>>, <<"bold">>},
     style : {<<>>}]

\* the arrays registerFonts is called with
FontLists ==
    LET some == {f \in FontInputs : f.weight = <<>> /\ f.path # <<"/f/", "Missing">>}
            \cup {[path |-> <<"/f/", "Missing">>, family |-> <<"Bold">>,
                   weight |-> <<>>, style |-> <<>>]}
    IN  {<<>>} \cup {<<f>> : f \in some} \cup {<<f, g>> : f, g \in some}

\* the (resolved path, family, weight, style) of a call
FontTuple(f) == <<Resolve(f.path), f.family, OrNormal(f.weight), OrNormal(f.style)>>

\* loadFont(fontPath, options) on the cache `cache`; `registers` says whether
\* canvas' registerFont accepts the file. The result is the log entry of the
\* call: what it did and the cache it leaves.
loadFont(cache, f, registers) ==
    LET resolvedPath == Resolve(f.path)
        cacheKey == CacheKey(resolvedPath, f)
        entry == [tuple |-> FontTuple(f), before |-> cache, after |-> cache,
                  threw |-> FALSE, registered |-> FALSE]
    IN  IF resolvedPath \notin FontFiles THEN [entry EXCEPT !.threw = TRUE]
        ELSE IF cacheKey \in cache THEN entry
        ELSE IF ~registers THEN [entry EXCEPT !.threw = TRUE]
        ELSE [entry EXCEPT !.registered = TRUE, !.after = cache \cup {cacheKey}]

\* fonts.forEach(font => { try { loadFont(...) } catch { console.error } })
RECURSIVE LoadEach(_, _, _, _)
LoadEach(cache, fonts, registers, i) ==
    IF i > Len(fonts) THEN <<>>
    ELSE LET e == loadFont(cache, fonts[i], registers[i])
         IN  <<e>> \o LoadEach(e.after, fonts, registers, i + 1)

FontInit ==
    /\ fontCache = {} /\ fontLog = <<>> /\ fontCalls = 0
    /\ ComposerIdle /\ WrapIdle /\ ShadowIdle /\ CropIdle /\ TempIdle

CallLoadFont ==
    /\ fontCalls < MaxFontCalls
    /\ \E f \in FontInputs, registers \in BOOLEAN :
          LET e == loadFont(fontCache, f, registers)
          IN  /\ fontCache' = e.after
              /\ fontLog' = Append(fontLog, e)
    /\ fontCalls' = fontCalls + 1
    /\ UNCHANGED <<cvars, wvars, svars, mvars, tvars>>

\* registerFonts(fonts): throws for a non-array, else loads each font and
\* swallows the failures
CallRegisterFonts ==
    /\ fontCalls < MaxFontCalls
    /\ \/ UNCHANGED <<fontCache, fontLog>>
       \/ \E fonts \in FontLists :
             \E registers \in [1..Len(fonts) -> BOOLEAN] :
                LET es == LoadEach(fontCache, fonts, registers, 1)
                IN  /\ fontCache' = IF es = <<>> THEN fontCache ELSE es[Len(es)].after
                    /\ fontLog' = fontLog \o es
    /\ fontCalls' = fontCalls + 1
    /\ UNCHANGED <<cvars, wvars, svars, mvars, tvars>>

FontNext == CallLoadFont \/ CallRegisterFonts

FontSpec == FontInit /\ [][FontNext]_vars

\* the tuples of the calls before the i-th that returned normally
LoadedBefore(i) == {fontLog[j].tuple : j \in {k \in 1..(i - 1) : ~fontLog[k].threw}}

C23_BannerValidatesFirst ==
    (/\ card = "banner"
     /\ TypeOf(opts.serverName) # "string" \/ ~IsNumeric(opts.memberCount)
     /\ pc # "validate") =>
        /\ loads = <<>> /\ S.ops = <<>> /\ ~surface
        /\ pc = "done" /\ result.kind = "rejected" /\ result.err.kind = "TypeError"

\* ------------------------------------------------ the badge grid: claims
\* the positions in the draw list of the calls `op` made for part `what` of
\* the i-th badge
BadgeCalls(op, what, i) ==
    {k \in 1..Len(S.ops) : S.ops[k].op = op /\ S.ops[k].what = what /\ S.ops[k].n = i}

\* the decoration stage of the call has run to its end
DecorCompleted ==
    /\ \E k \in 1..Len(stages) : stages[k] = "decor"
    /\ thrownAt # "decor"

\* C24: in generateProfileCard, whichever badge icons fail to load, the
\* badges are drawn in index order; badge i (from 0) is placed in the grid
\* cell of row i div 5 and column i mod 5 and gets exactly one of its icon
\* or the grey placeholder rectangle with its stroke, and then its name; a
\* failed icon stops neither the later badges nor the render.
C24_EveryBadgeDrawnOnce ==
    (card = "profile" /\ DecorCompleted) =>
        /\ pc \in {"serialize", "handler", "done"}
        /\ (pc = "done" /\ thrownAt = "none") => result.kind = "buffer"
        /\ \A k \in 1..Len(S.ops) :
               S.ops[k].what \in {"badge", "badgePlaceholder", "badgeName"} =>
                   /\ S.ops[k].n \in 1..opts.nBadges
                   /\ S.ops[k].cell = <<(S.ops[k].n - 1) \div 5, (S.ops[k].n - 1) % 5>>
        /\ \A i \in 1..opts.nBadges :
               LET icon == BadgeCalls("drawImage", "badge", i)
                   rect == BadgeCalls("fillRect", "badgePlaceholder", i)
                   line == BadgeCalls("strokeRect", "badgePlaceholder", i)
                   name == BadgeCalls("fillText", "badgeName", i)
               IN  /\ Cardinality(name) = 1
                   /\ \/ Cardinality(icon) = 1 /\ rect = {} /\ line = {}
                      \/ /\ icon = {} /\ Cardinality(rect) = 1 /\ Cardinality(line) = 1
                         /\ \A r \in rect :
                               /\ line = {r + 1}
                               /\ S.ops[r].st.fillStyle = "rgba(128, 128, 128, 0.5)"
                   /\ \A a \in icon \cup line, b \in name : b = a + 1
                   /\ i > 1 =>
                         \A a \in BadgeCalls("fillText", "badgeName", i - 1),
                            b \in icon \cup rect : b = a + 1

C24_Witness ==
    /\ card = "profile" /\ pc = "done" /\ result.kind = "buffer"
    /\ opts.nBadges = 6
    /\ BadgeCalls("fillRect", "badgePlaceholder", 1) # {}
    /\ BadgeCalls("fillRect", "badgePlaceholder", 5) # {}
    /\ \E k \in BadgeCalls("drawImage", "badge", 6) : S.ops[k].cell = <<1, 0>>

\* ------------------------------------------------ the text shadow: claims
\* the shadow state in which a call was made casts no shadow / casts one
ShadowNeutral(st) ==
    /\ st.shadowColor = "transparent"
    /\ st.shadowBlur = 0 /\ st.shadowOffsetX = 0 /\ st.shadowOffsetY = 0
ShadowActive(st) ==
    /\ st.shadowColor \notin {"transparent", "rgba(0, 0, 0, 0)"}
    /\ st.shadowBlur > 0 \/ st.shadowOffsetX # 0 \/ st.shadowOffsetY # 0

\* the text elements that never cast a shadow, and those that cast one when
\* the `shadow` option is set
PlainTexts == {"message", "bio", "badgeName", "percent"}
ShadowedTexts == {"title", "username", "rank", "level", "xp", "statName", "statValue"}

\* C25: in the welcome, rank and profile composers every fillText of a
\* message line, a bio line, a badge label or the percentage label is made
\* with the neutral shadow state, whatever the `shadow` option is, and every
\* fillText of the title, the username, the rank and level texts and the stat
\* texts is made with an active shadow if and only if the option is true.
C25_ShadowOnlyWhereMeant ==
    card \in ValidatingCards =>
        \A k \in 1..Len(S.ops) :
            S.ops[k].op = "fillText" =>
                /\ S.ops[k].what \in PlainTexts \cup ShadowedTexts
                /\ S.ops[k].what \in PlainTexts => ShadowNeutral(S.ops[k].st)
                /\ S.ops[k].what \in ShadowedTexts =>
                       /\ ShadowActive(S.ops[k].st) <=> opts.shadow
                       /\ ~opts.shadow => ShadowNeutral(S.ops[k].st)

C25_Witness ==
    /\ card = "profile" /\ opts.shadow /\ pc = "done" /\ result.kind = "buffer"
    /\ \E i, j, k \in 1..Len(S.ops) :
          /\ i < j /\ j < k
          /\ S.ops[i].what = "bio" /\ ShadowNeutral(S.ops[i].st)
          /\ S.ops[j].what = "statValue" /\ ShadowActive(S.ops[j].st)
          /\ S.ops[k].what = "badgeName" /\ ShadowNeutral(S.ops[k].st)

\* -------------------------------------------------- stage order: claims
\* the place of a stage in the fixed order
StageRank(s) ==
    CASE s = "validate" -> 1
      [] s = "background" -> 2
      [] s = "avatar" -> 3
      [] s = "text" -> 4
      [] s = "decor" -> 5
      [] s = "serialize" -> 6
      [] OTHER -> 0

\* the surface of the call has been serialized
Serialized == \E k \in 1..Len(stages) : stages[k] = "serialize"

\* the stages so far are in the fixed order, each at most once; a load is
\* started only in its own stage; the texts come after the avatar
StagesInOrder ==
    card \in StaticCards =>
        /\ \A i, j \in 1..Len(stages) :
               i < j => (0 < StageRank(stages[i]) /\ StageRank(stages[i]) < StageRank(stages[j]))
        /\ \A i \in 1..Len(loads) :
               /\ loads[i] = "background" =>
                      (i = 1 /\ \E k \in 1..Len(stages) : stages[k] = "background")
               /\ loads[i] = "avatar" =>
                      /\ bgOutcome # "none"
                      /\ \E k \in 1..Len(stages) : stages[k] = "avatar"
                      /\ \A j \in 1..Len(loads) : loads[j] = "background" => j < i
               /\ loads[i] = "badge" =>
                      \E j \in 1..(i - 1) : loads[j] = "avatar"
        /\ card \in AvatarCards =>
               \A k \in 1..Len(S.ops) :
                   S.ops[k].op = "fillText" =>
                       \E a \in 1..(k - 1) :
                           S.ops[a].op = "drawImage" /\ S.ops[a].what = "avatar"

\* C26: in every execution of a card composer the stages occur in the order
\* Validate, Background, Avatar, Primary text, Decorations, Serialize, each
\* after the one before has completed: the avatar load is not started before
\* the background stage is over, no text is drawn before the avatar, the
\* surface is serialized at most once and nothing is loaded or drawn after it
\* has been serialized.
C26_StagesInFixedOrder ==
    /\ [] StagesInOrder
    /\ [][(card \in StaticCards /\ Serialized) =>
              (S' = S /\ loads' = loads /\ stages' = stages)]_vars

C26_Witness ==
    /\ card = "profile" /\ pc = "done" /\ result.kind = "buffer"
    /\ stages = <<"validate", "background", "avatar", "text", "decor", "serialize">>
    /\ loads = <<"background", "avatar", "badge", "badge">>

\* ------------------------------------------------- termination: claims
\* C27: every call of the temp-file composer eventually settles, resolving or
\* rejecting, when every load and every stream operation completes or fails;
\* it does not wait for ever for the output stream when the temp file cannot
\* be opened or written, whenever that error comes.
C27_AnimatedCallSettles ==
    (card = "animated") ~> (pc = "done" /\ result.kind \in {"buffer", "rejected"})

\* ----------------------------------------- record backgrounds: claims
\* the same options with the image left out of the background record
WithoutImage(o) == [o EXCEPT !.background.image = FALSE]

\* C28: when generateWelcomeImage is given its background as a record with
\* its own color and an image that fails to load, the fallback fill has the
\* record's color, the fill colour of the same record without the image.
C28_FallbackUsesRecordColor ==
    (/\ card = "welcome" /\ opts.background.kind = "record"
     /\ opts.background.image /\ opts.background.color # "absent"
     /\ bgOutcome \in {"loadFails", "decodeFails"}) =>
        LET plain == BackgroundStage(card, WithoutImage(opts), FreshSurface, "ok")
        IN  /\ Len(S.ops) >= 1 /\ S.ops[1].op = "fillRect"
            /\ S.ops[1].st.fillStyle = opts.background.color
            /\ S.ops[1].st.fillStyle = plain.ops[1].st.fillStyle

\* ------------------------------------ concurrent temp-file composer calls
\* the clock can advance by this many milliseconds during a run
MaxClock == 1
\* frames each call writes
TempFrames == 1

\* the temp-file versions: the path is welcome_${Date.now()}.gif in the
\* older one, and carries six more characters drawn with Math.random() in
\* the newer one
TempVersions == {"timestamp", "random"}

\* the suffixes Math.random().toString(36).substring(2, 8) can give (two of
\* them stand for all)
Suffixes == {"k3x9p1", "0zq7ab"}

\* the temp paths a call starting now can get
TempPaths(version, now) ==
    IF version = "timestamp" THEN {<<now, "">>}
    ELSE {<<now, sfx>> : sfx \in Suffixes}

\* the file at a path, if there is one
FileAt(path) == {f \in tfiles : f.path = path}

TempInit ==
    /\ tversion \in TempVersions /\ tclock = 0
    /\ tcalls = [c \in Calls |-> NoCall] /\ tfiles = {}
    /\ ComposerIdle /\ WrapIdle /\ ShadowIdle /\ CropIdle /\ FontIdle

\* a millisecond passes
TempTick ==
    /\ tclock < MaxClock
    /\ tclock' = tclock + 1
    /\ UNCHANGED <<tversion, tcalls, tfiles, cvars, wvars, svars, mvars, qvars>>

\* a call starts: it chooses its temp path and opens a write stream on it,
\* which creates the file or empties the one that is there
TempStart(c) ==
    /\ tcalls[c].pc = "idle"
    /\ \E path \in TempPaths(tversion, tclock) :
          /\ tcalls' = [tcalls EXCEPT ![c] = [@ EXCEPT !.pc = "running", !.path = path]]
          /\ tfiles' = (tfiles \ FileAt(path)) \cup {[path |-> path, writers |-> {}]}
    /\ UNCHANGED <<tversion, tclock, cvars, wvars, svars, mvars, qvars>>

\* the encoder of a call writes a frame through its stream; a stream whose
\* file has been unlinked writes to a file no path leads to
TempWrite(c) ==
    /\ tcalls[c].pc = "running" /\ tcalls[c].written < TempFrames
    /\ tcalls' = [tcalls EXCEPT ![c].written = @ + 1]
    /\ tfiles' = {IF f.path = tcalls[c].path
                  THEN [f EXCEPT !.writers = @ \cup {c}] ELSE f : f \in tfiles}
    /\ UNCHANGED <<tversion, tclock, cvars, wvars, svars, mvars, qvars>>

\* the call ends: it reads the file at its path and unlinks it, or finds no
\* file there and throws; or it fails before that and unlinks the file at
\* its path if there is one
TempEnd(c) ==
    /\ tcalls[c].pc = "running"
    /\ \/ /\ tcalls[c].written = TempFrames
          /\ IF FileAt(tcalls[c].path) = {}
             THEN tcalls' = [tcalls EXCEPT ![c].pc = "rejected"]
             ELSE \E f \in FileAt(tcalls[c].path) :
                     tcalls' = [tcalls EXCEPT ![c] = [@ EXCEPT !.pc = "resolved",
                                                               !.returned = f.writers]]
       \/ tcalls' = [tcalls EXCEPT ![c].pc = "rejected"]
    /\ tfiles' = tfiles \ FileAt(tcalls[c].path)
    /\ UNCHANGED <<tversion, tclock, cvars, wvars, svars, mvars, qvars>>

TempNext ==
    \/ TempTick
    \/ \E c \in Calls : TempStart(c)
    \/ \E c \in Calls : TempWrite(c)
    \/ \E c \in Calls : TempEnd(c)

TempSpec == TempInit /\ [][TempNext]_vars

\* C29: two calls of generateAnimatedWelcome that overlap in time, two calls
\* started in the same millisecond included, never have the same temp path,
\* and the bytes a call returns hold only frames that this call encoded.
C29_ConcurrentCallsIsolated ==
    /\ \A c, d \in Calls :
          (c # d /\ tcalls[c].pc = "running" /\ tcalls[d].pc = "running") =>
              tcalls[c].path # tcalls[d].path
    /\ \A c \in Calls : tcalls[c].pc = "resolved" => tcalls[c].returned = {c}

\* ------------------------------------------- concurrent crops: claims
\* the calls that computed the mask of diameter d
MaskBuilders(d) == {i \in 1..Len(cropLog) : cropLog[i].size = d /\ cropLog[i].built}

\* C30: under any interleaving of concurrent cropToCircle calls the mask of
\* a diameter is computed and stored at most once, a stored mask is never
\* replaced, removed or changed afterwards, and every call, whenever its
\* decoding completes, composes with the pixel data of the first.
C30_MaskStoredOnce ==
    /\ [](/\ \A d \in 1..(MaxDiameter + 1) : Cardinality(MaskBuilders(d)) <= 1
          /\ \A i \in 1..Len(cropLog) :
                /\ MaskKey(cropLog[i].size) \in DOMAIN maskCache
                /\ cropLog[i].mask = maskCache[MaskKey(cropLog[i].size)]
                /\ \A j \in MaskBuilders(cropLog[i].size) :
                      j <= i /\ cropLog[j].mask = cropLog[i].mask)
    /\ [][\A k \in DOMAIN maskCache :
              k \in DOMAIN maskCache' /\ maskCache'[k] = maskCache[k]]_vars

\* three calls for one diameter in flight at once, settling out of order
C30_Witness ==
    /\ Len(cropLog) = 3
    /\ \A i \in 1..3 : cropLog[i].size = 3
    /\ cropLog[1].built /\ ~cropLog[2].built /\ ~cropLog[3].built
    /\ cropLog[3].settled = 1 /\ cropLog[1].settled = 2 /\ cropLog[2].settled = 0
    /\ cropOut.kind = "ok"

====
